---- MODULE Spec2Model ----
(***************************************************************************)
(* A model of ottrec-website: the ingest cache (pkg/ottrecidx Cache.Import,*)
(* importCommit, internal/gitsh), the bitmap index (Indexer.index,         *)
(* childRefSeq) and its mutable view, ResolveVersion, the effective date   *)
(* ranges (refutil.go), the export dataset with its CSV and JSON writers   *)
(* (pkg/ottrecsimple, pkg/ottrecexp), the export and file handlers         *)
(* (routes/data.go) and the repo fetcher (cmd/ottrec-data).                *)
(***************************************************************************)
EXTENDS Integers, Sequences, FiniteSets, TLC

VARIABLES
    chain,      \* the source repository: first-parent chain of commits, root first
    nhash,      \* number of commit hashes created so far
    tCommits,   \* table commits(hash PK, date)
    tData,      \* table data(id PK, hash, updated, revision), in insertion order
    tFiles,     \* table files(id, format, hash)
    tBlobs,     \* table blobs(hash PK, size, data)
    pc,         \* position of Cache.Import: "idle" or "walk" (inside the range loop)
    walk,       \* commits CommitsAscFirstParent has still to yield
    walked,     \* hashes the walk of the current or last Import has yielded
    ret,        \* what the last Import returned: "none", "nil" or "err"
    last,       \* the last importCommit call of the current or last Import
                \* (walked, ret and last are forgotten when the repository changes)
    snap,       \* a snapshot (schema.Data): facilities of groups of schedules of
                \* activities of days, a day being its number of times
    bulk,       \* whether the snapshot holds a day with very many times
    idx,        \* the Index that Indexer.index built from snap
    ipc,        \* "input" while the snapshot is put together, then "built"
    vflt,       \* the filter of the MutableDataRef made of idx.Data(), nil before
    vop,        \* the last operation on the MutableDataRef and what it returned
    rres,       \* the last ResolveVersion call: its spec and what it returned
    dat,        \* a snapshot's facilities: source date and schedules' date ranges
    dix,        \* the Index of dat: updated and the cached effective date ranges
    dres,       \* the last ComputeEffectiveDateRange call and what it returned
    sdat,       \* the snapshot the export dataset is made of: facilities, attribution
    exp,        \* the export dataset (ottrecsimple.Data) New built of sdat, nil before
    out,        \* the last table written as CSV and the rows that were written
    jstr,       \* a string value (bytes) of the export dataset
    jout,       \* the last call of a JSON string writer on jstr and what it appended
    hcache,     \* dataExportHandler.cache: version id -> weak pointer to an export
    ents,       \* the dataExportData objects made so far, with their export tasks
    reqs,       \* the HTTP requests: where their handler is and what it answered
    upd         \* the repo fetcher goroutine, its ticker and the imports it ran

cacheVars == <<chain, nhash, tCommits, tData, tFiles, tBlobs, pc, walk, walked, ret, last>>
indexVars == <<snap, bulk, idx, ipc>>
viewVars == <<vflt, vop>>
resolveVars == <<rres>>
dateVars == <<dat, dix, dres>>
exportVars == <<sdat, exp, out>>
jsonVars == <<jstr, jout>>
serveVars == <<hcache, ents, reqs>>
timerVars == <<upd>>
restVars == <<exportVars, jsonVars, serveVars, timerVars>>
vars == <<cacheVars, indexVars, viewVars, resolveVars, dateVars, restVars>>

(***************************************************************************)
(* Bounds and input palettes.                                              *)
(***************************************************************************)
MaxCommits == 3

\* File contents are byte strings.  A data.pb is modelled as a header byte
\* (1: a well-formed message, 0: not a protobuf) followed by one byte per
\* facility: its source date, 0 when the facility has none.
PbA      == <<1, 1>>
PbB      == <<1, 1, 2>>
PbNoDate == <<1, 0>>
PbBad    == <<0>>
Missing  == <<-1>>

Tree(pb, json) == [pb |-> pb, textpb |-> <<7>>, proto |-> <<8>>, json |-> json]

\* What a pushed commit may hold: its tree and its commit date (unix seconds).
\* A snapshot at an early date; the same data.pb with another data.json at a
\* later date; another data.pb; a data.pb without dates; bytes that are no
\* protobuf; a tree without data.json.
Pushes ==
    { [tree |-> Tree(PbA, <<9>>),      date |-> 1],
      [tree |-> Tree(PbA, <<9, 9>>),   date |-> 2],
      [tree |-> Tree(PbB, <<9>>),      date |-> 2],
      [tree |-> Tree(PbNoDate, <<9>>), date |-> 2],
      [tree |-> Tree(PbBad, <<9>>),    date |-> 2],
      [tree |-> Tree(PbA, Missing),    date |-> 2] }

(***************************************************************************)
(* Helpers of the cache.                                                   *)
(***************************************************************************)
formats == <<"pb", "textpb", "proto", "json">>
required == Len(formats)

\* base32sha1: the digest is idealised as collision-free; d[1] stands for the
\* first base32 character and d[2] for the other 31.
base32sha1(b) == <<"b32", b>>

RECURSIVE Concat(_)
Concat(bs) == IF bs = <<>> THEN <<>> ELSE Head(bs) \o Concat(Tail(bs))

\* id = base32sha1(contents...); id = "9" + id[1:]
DupID(contents) == <<"9", base32sha1(Concat(contents))[2]>>

gzip(buf) == <<"gz", buf>>

\* gitsh.CatFile: fail is a shell or I/O error of the git process.
CatFile(tree, name, fail) ==
    IF fail THEN [err |-> "shell", buf |-> <<>>]
    ELSE IF tree[name] = Missing THEN [err |-> "notexist", buf |-> <<>>]
    ELSE [err |-> "nil", buf |-> tree[name]]

\* The loop over formats of importCommit: the contents read, or the error
\* importCommit returns from the loop.  failAt is the format whose read fails
\* with a shell error (0: none).  A nil entry of contents is <<>> with ok FALSE.
RECURSIVE ReadFormats(_, _, _, _)
ReadFormats(tree, failAt, i, contents) ==
    IF i > Len(formats) THEN [err |-> "nil", contents |-> contents]
    ELSE LET r == CatFile(tree, formats[i], failAt = i)
         IN  IF r.err # "nil"
             THEN IF r.err = "notexist" /\ (i - 1) >= required
                  THEN ReadFormats(tree, failAt, i + 1, Append(contents, Missing))
                  ELSE [err |-> r.err, contents |-> contents]
             ELSE ReadFormats(tree, failAt, i + 1, Append(contents, r.buf))

\* proto.Unmarshal followed by the loop over the facilities: ok is FALSE when
\* the bytes are no message; updated is the greatest source date (0: none).
RECURSIVE UpdatedOf(_)
UpdatedOf(s) == IF s = <<>> THEN 0
                ELSE LET m == UpdatedOf(Tail(s)) IN IF Head(s) > m THEN Head(s) ELSE m

Unmarshal(pb) == [ok |-> Len(pb) > 0 /\ pb[1] = 1,
                  updated |-> IF Len(pb) > 0 /\ pb[1] = 1 THEN UpdatedOf(Tail(pb)) ELSE 0]

DataIDs(d) == {d[i].id : i \in 1..Len(d)}

\* The revision subquery without its WHERE clause.
NextRevisionAll(d, updated) ==
    LET revs == {d[i].revision : i \in 1..Len(d)}
    IN  1 + (IF revs = {} THEN 0 ELSE CHOOSE m \in revs : \A r \in revs : r <= m)

\* 1+coalesce((SELECT revision FROM data WHERE updated = :updated
\*             ORDER BY revision DESC LIMIT 1), 0)
NextRevision(d, updated) ==
    LET revs == {d[i].revision : i \in {j \in 1..Len(d) : d[j].updated = updated}}
    IN  1 + (IF revs = {} THEN 0 ELSE CHOOSE m \in revs : \A r \in revs : r <= m)

\* insertFile for every non-nil content (iterTranspose(formats, contents)).
FilesOf(id, contents) ==
    {[id |-> id, format |-> formats[i], hash |-> base32sha1(contents[i])] :
        i \in {j \in 1..Len(contents) : contents[j] # Missing}}

BlobsOf(contents) ==
    {[hash |-> base32sha1(contents[i]), size |-> Len(contents[i]), data |-> gzip(contents[i])] :
        i \in {j \in 1..Len(contents) : contents[j] # Missing}}

\* INSERT OR IGNORE INTO blobs: a row whose hash exists is left alone.
InsertBlobs(blobs, new) ==
    blobs \cup {b \in new : ~\E o \in blobs : o.hash = b.hash}

(***************************************************************************)
(* importCommit.  S is the store when the transaction begins, c the commit, *)
(* failAt the format whose CatFile fails (0: none), dbFail the statement    *)
(* at which the database fails ("none", "begin", "insert", "commit").      *)
(***************************************************************************)
Store == [commits |-> tCommits, data |-> tData, files |-> tFiles, blobs |-> tBlobs]

\* A transaction that never rolls back: every statement is kept.
DeferredKeep(S, tx, committed) == tx

\* defer tx.Rollback(): the statements of tx are kept only after tx.Commit().
Deferred(S, tx, committed) == IF committed THEN tx ELSE S

\* The derived id without the sentinel character.
NewIDPlain(data, contents) ==
    LET id == base32sha1(contents[1])
    IN  IF id \in DataIDs(data) THEN base32sha1(Concat(contents)) ELSE id

\* id := base32sha1(pb); if it is a data.id, id := "9" + base32sha1(contents...)[1:]
NewID(data, contents) ==
    LET id == base32sha1(contents[1])
    IN  IF id \in DataIDs(data) THEN DupID(contents) ELSE id

importCommit(S, c, failAt, dbFail) ==
    LET tx1 == [S EXCEPT !.commits = @ \cup {[hash |-> c.hash, date |-> c.date]}]
        rd  == ReadFormats(c.tree, failAt, 1, <<>>)
        pb  == rd.contents[1]
        id  == NewID(S.data, rd.contents)
        dup == base32sha1(pb) \in DataIDs(S.data) /\ id \in DataIDs(S.data)
        m   == Unmarshal(pb)
        row == [id |-> id, hash |-> c.hash, updated |-> m.updated,
                revision |-> NextRevision(S.data, m.updated)]
        tx2 == [tx1 EXCEPT !.data = Append(@, row)]
        tx3 == [tx2 EXCEPT !.files = @ \cup FilesOf(id, rd.contents),
                           !.blobs = InsertBlobs(@, BlobsOf(rd.contents))]
    IN  IF dbFail = "begin"
        THEN [store |-> S, res |-> "err", why |-> "database"]
        ELSE IF \E r \in S.commits : r.hash = c.hash
        THEN [store |-> Deferred(S, S, FALSE), res |-> "nil", why |-> "present"]
        ELSE IF rd.err # "nil"
        THEN [store |-> Deferred(S, tx1, FALSE), res |-> "skip", why |-> rd.err]
        ELSE IF dup
        THEN [store |-> Deferred(S, tx1, FALSE), res |-> "skip", why |-> "duplicate"]
        ELSE IF ~m.ok
        THEN [store |-> Deferred(S, tx1, FALSE), res |-> "err", why |-> "unmarshal"]
        ELSE IF m.updated = 0
        THEN [store |-> Deferred(S, tx1, FALSE), res |-> "skip", why |-> "nodate"]
        ELSE IF dbFail = "insert"
        THEN [store |-> Deferred(S, tx2, FALSE), res |-> "err", why |-> "database"]
        ELSE IF dbFail = "commit"
        THEN [store |-> Deferred(S, tx3, FALSE), res |-> "err", why |-> "database"]
        ELSE [store |-> Deferred(S, tx3, TRUE), res |-> "nil", why |-> "imported"]

DbFails == {"none", "begin", "insert", "commit"}
NoCall == [hash |-> 0, res |-> "none", why |-> "none"]

(***************************************************************************)
(* The source repository (the environment).                                *)
(***************************************************************************)
\* A commit is pushed on top of the head.
GitCommit ==
    /\ pc = "idle" /\ nhash < MaxCommits
    /\ \E p \in Pushes :
          chain' = Append(chain, [hash |-> nhash + 1, date |-> p.date, tree |-> p.tree])
    /\ nhash' = nhash + 1
    /\ walked' = {} /\ ret' = "none" /\ last' = NoCall
    /\ UNCHANGED <<tCommits, tData, tFiles, tBlobs, pc, walk, indexVars, viewVars, resolveVars, dateVars, restVars>>

\* The head is replaced by another commit on the same parent (a forced update).
GitReplaceHead ==
    /\ pc = "idle" /\ nhash < MaxCommits /\ chain # <<>>
    /\ \E p \in Pushes :
          chain' = Append(SubSeq(chain, 1, Len(chain) - 1),
                          [hash |-> nhash + 1, date |-> p.date, tree |-> p.tree])
    /\ nhash' = nhash + 1
    /\ walked' = {} /\ ret' = "none" /\ last' = NoCall
    /\ UNCHANGED <<tCommits, tData, tFiles, tBlobs, pc, walk, indexVars, viewVars, resolveVars, dateVars, restVars>>

(***************************************************************************)
(* Cache.Import.                                                           *)
(***************************************************************************)
\* gitsh.CommitsAscFirstParent: rev-list --first-parent --reverse yields the
\* first-parent chain of rev from its root to rev, whatever the dates are.
CommitsAscFirstParent(repo) == repo

\* From the call to the first iteration of the loop: RevCommit, the
\* up-to-date short cut, the start of the walk.
ImportBegin ==
    /\ pc = "idle"
    /\ walked' = {} /\ last' = NoCall
    /\ IF chain = <<>>
       THEN ret' = "err" /\ pc' = "idle" /\ walk' = <<>>
       ELSE IF \E r \in tCommits : r.hash = chain[Len(chain)].hash
       THEN ret' = "nil" /\ pc' = "idle" /\ walk' = <<>>
       ELSE ret' = "none" /\ pc' = "walk" /\ walk' = CommitsAscFirstParent(chain)
    /\ UNCHANGED <<chain, nhash, tCommits, tData, tFiles, tBlobs, indexVars, viewVars, resolveVars, dateVars, restVars>>

\* One iteration of the loop: importCommit on the next commit of the walk.
ImportCommit ==
    /\ pc = "walk" /\ walk # <<>>
    /\ \E failAt \in 0..Len(formats), dbFail \in DbFails :
          LET c == Head(walk)
              r == importCommit(Store, c, failAt, dbFail)
          IN  /\ tCommits' = r.store.commits
              /\ tData' = r.store.data
              /\ tFiles' = r.store.files
              /\ tBlobs' = r.store.blobs
              /\ last' = [hash |-> c.hash, res |-> r.res, why |-> r.why]
              /\ walked' = walked \cup {c.hash}
              /\ IF r.res = "err"
                 THEN pc' = "idle" /\ ret' = "err" /\ walk' = <<>>
                 ELSE pc' = "walk" /\ ret' = ret /\ walk' = Tail(walk)
    /\ UNCHANGED <<chain, nhash, indexVars, viewVars, resolveVars, dateVars, restVars>>

\* The walk is exhausted and rev-list exited cleanly: Import returns nil.
ImportEnd ==
    /\ pc = "walk" /\ walk = <<>>
    /\ pc' = "idle" /\ ret' = "nil"
    /\ UNCHANGED <<chain, nhash, tCommits, tData, tFiles, tBlobs, walk, walked, last, indexVars, viewVars, resolveVars, dateVars, restVars>>

\* rev-list fails: the walk ends early and Import returns its error.
ImportWalkFail ==
    /\ pc = "walk"
    /\ pc' = "idle" /\ ret' = "err" /\ walk' = <<>>
    /\ UNCHANGED <<chain, nhash, tCommits, tData, tFiles, tBlobs, walked, last, indexVars, viewVars, resolveVars, dateVars, restVars>>

(***************************************************************************)
(* The bitmap (kelindar/bitmap wrapped by bitmap[T]): len words of WordBits *)
(* bits each, and the set of the bits that are set.                        *)
(***************************************************************************)
WordBits == 64
MaxObj == 7
MaxDays == 2
ManyTimes == 60

Kinds == <<"Data", "Facility", "ScheduleGroup", "Schedule", "Activity", "Time">>
KindSet == {Kinds[i] : i \in 1..Len(Kinds)}
Level(k) == CHOOSE i \in 1..Len(Kinds) : Kinds[i] = k

\* make(kbitmap.Bitmap, n>>6) : a bitmap one word short.
makeBitmapShort(n) == [len |-> n \div WordBits, bits |-> {}]

\* make(kbitmap.Bitmap, (n>>6)+1)
makeBitmap(n) == [len |-> (n \div WordBits) + 1, bits |-> {}]

\* Set through a copy of the bitmap struct (bm := typeBitmap[T](idx);
\* bm.Set(i)): the bit lands in the shared words unless Set has to grow the
\* copy, which the Index's own bitmap never sees.
SetOnCopy(bm, v) == IF v \div WordBits < bm.len THEN [bm EXCEPT !.bits = @ \cup {v}] ELSE bm

\* dst.Or(other, extra...): dst grows to the longest operand.
Or(dst, others) ==
    [len  |-> CHOOSE m \in {dst.len} \cup {o.len : o \in others} :
                 \A l \in {dst.len} \cup {o.len : o \in others} : l <= m,
     bits |-> dst.bits \cup UNION {o.bits : o \in others}]

\* dst.And(other): dst shrinks to the shorter operand.
And(dst, other) ==
    [len  |-> IF other.len < dst.len THEN other.len ELSE dst.len,
     bits |-> dst.bits \cap other.bits]

SetMax(S) == CHOOSE m \in S : \A v \in S : v <= m
SetMin(S) == CHOOSE m \in S : \A v \in S : m <= v

\* MaxZero: the highest bit of the words that is not set.
MaxZero(bm) ==
    LET top == bm.len * WordBits - 1
    IN  IF \A k \in 0..top : (top - k) \in bm.bits
        THEN [v |-> 0, ok |-> FALSE]
        ELSE [v  |-> top - (CHOOSE k \in 0..top :
                               /\ (top - k) \notin bm.bits
                               /\ \A j \in 0..(k - 1) : (top - j) \in bm.bits),
              ok |-> TRUE]

\* Next: the first set bit >= i, else the last zero and false.
BitmapNext(bm, i) ==
    LET above == {v \in bm.bits : v >= i}
    IN  IF above # {} THEN [v |-> SetMin(above), ok |-> TRUE]
        ELSE [v |-> MaxZero(bm).v, ok |-> FALSE]

\* Prev: the last set bit <= i, else 0 and false.
BitmapPrev(bm, i) ==
    LET below == {v \in bm.bits : v <= i}
    IN  IF below # {} THEN [v |-> SetMax(below), ok |-> TRUE] ELSE [v |-> 0, ok |-> FALSE]

\* The elements of S in ascending order.
Ascending(S) ==
    [i \in 1..Cardinality(S) |-> CHOOSE v \in S : Cardinality({w \in S : w < v}) = i - 1]

\* RangeBetween: the set bits v with start <= v < end, in ascending order.
RangeBetween(bm, start, end) ==
    SelectSeq([i \in 1..(end - start) |-> start + i - 1], LAMBDA v : v \in bm.bits)

(***************************************************************************)
(* Indexer.index: the object array and the bitmaps of a snapshot.          *)
(***************************************************************************)
RECURSIVE SumSeq(_)
SumSeq(s) == IF Len(s) = 0 THEN 0 ELSE Head(s) + SumSeq(Tail(s))

\* The first pass over the message, which counts the objects.
CountActivity(act) == 1 + SumSeq(act)
CountSchedule(sch) == 1 + SumSeq([i \in 1..Len(sch) |-> CountActivity(sch[i])])
CountGroup(grp)    == 1 + SumSeq([i \in 1..Len(grp) |-> CountSchedule(grp[i])])
CountFacility(fac) == 1 + SumSeq([i \in 1..Len(fac) |-> CountGroup(fac[i])])
CountObjs(data)    == 1 + SumSeq([i \in 1..Len(data) |-> CountFacility(data[i])])

\* An object of the array: its kind (the Go type of obj[i]); the place of its
\* message in the snapshot (path) is kept to state the properties, the Index
\* does not have it.  day is xTime.ScheduleDay.
Obj(kind, path, day) == [kind |-> kind, path |-> path, day |-> day]

\* The sequences of ss one after the other (ss is taken in halves).
RECURSIVE Flat(_)
Flat(ss) ==
    IF Len(ss) = 0 THEN <<>>
    ELSE IF Len(ss) = 1 THEN ss[1]
    ELSE LET h == Len(ss) \div 2
         IN  Flat(SubSeq(ss, 1, h)) \o Flat(SubSeq(ss, h + 1, Len(ss)))

\* The second pass: the objects in the order the nested loops add them.
TimeObjs(p, i, n)    == [k \in 1..n |-> Obj("Time", p \o <<i, k>>, i - 1)]
ActivityObjs(act, p) == <<Obj("Activity", p, -1)>>
                        \o Flat([i \in 1..Len(act) |-> TimeObjs(p, i, act[i])])
ScheduleObjs(sch, p) == <<Obj("Schedule", p, -1)>>
                        \o Flat([i \in 1..Len(sch) |-> ActivityObjs(sch[i], Append(p, i))])
GroupObjs(grp, p)    == <<Obj("ScheduleGroup", p, -1)>>
                        \o Flat([i \in 1..Len(grp) |-> ScheduleObjs(grp[i], Append(p, i))])
FacilityObjs(fac, p) == <<Obj("Facility", p, -1)>>
                        \o Flat([i \in 1..Len(fac) |-> GroupObjs(fac[i], Append(p, i))])
DataObjs(data)       == <<Obj("Data", <<>>, -1)>>
                        \o Flat([i \in 1..Len(data) |-> FacilityObjs(data[i], <<i>>)])

\* addObj over the whole array, for the bitmap of kind k: bit len(obj) is set
\* as each object of that kind is appended.  Every Set is on a copy of the
\* same words, so the bits that land are those within bm's length.
addObj(bm, objs, k) ==
    [bm EXCEPT !.bits = UNION {SetOnCopy(bm, i - 1).bits :
                                 i \in {j \in 1..Len(objs) : objs[j].kind = k}}]

\* bXNotChild.Or(...) leaving the kind's own bitmap out.
NotChildOfAbove(ix, k) == Or(ix.nc[k], {ix.b[Kinds[j]] : j \in 1..(Level(k) - 1)})

\* bXNotChild.Or(bData, ..., bX): the bitmaps of the kinds at or above X.
NotChildOf(ix, k) == Or(ix.nc[k], {ix.b[Kinds[j]] : j \in 1..Level(k)})

index(data) ==
    LET n    == CountObjs(data)
        objs == DataObjs(data)
        ix1  == [obj |-> objs,
                 b   |-> [k \in KindSet |-> addObj(makeBitmap(n), objs, k)],
                 nc  |-> [k \in KindSet |-> makeBitmap(n)]]
    IN  [ix1 EXCEPT !.nc = [k \in KindSet |-> NotChildOf(ix1, k)]]

NoIndex == [obj |-> <<>>,
            b   |-> [k \in KindSet |-> [len |-> 0, bits |-> {}]],
            nc  |-> [k \in KindSet |-> [len |-> 0, bits |-> {}]]]

(***************************************************************************)
(* References into the Index.  A reference is an object index with the     *)
(* kind of its typedRef; flt is the filter bitmap, NilBitmap when unset.   *)
(***************************************************************************)
NilBitmap == [len |-> -1, bits |-> {}]
IsNil(bm) == bm.len = -1

\* applyFilter that leaves the filter out.
applyFilterNone(flt, b) == b

\* applyFilter: a clone of b, AND'd with the filter when there is one.
applyFilter(flt, b) == IF IsNil(flt) THEN b ELSE And(b, flt)

\* typedRef.deref: whether it returns (TRUE) or panics (FALSE).
Deref(ix, flt, k, obj) ==
    /\ obj < Len(ix.obj)
    /\ IsNil(flt) \/ obj \in flt.bits
    /\ obj \in ix.b[k].bits
    /\ ix.obj[obj + 1].kind = k

\* The end of the children of start taken as the end of the array always.
UntilEnd(ix, T, start) == Len(ix.obj)

\* The end of the children of start: the next bit of T's not-a-child bitmap
\* after start, otherwise the end of the objects.
Until(ix, T, start) ==
    LET next == BitmapNext(ix.nc[T], start + 1)
    IN  IF next.ok THEN next.v ELSE Len(ix.obj)

\* childRefSeq[T, U](ref): the references it yields, as object indices; a
\* reference() that panics ends the sequence with -1.
Yield(ix, flt, U, objs) ==
    LET bad == {i \in 1..Len(objs) : ~Deref(ix, flt, U, objs[i])}
    IN  IF bad = {} THEN objs ELSE SubSeq(objs, 1, SetMin(bad) - 1) \o <<-1>>

childRefSeq(ix, flt, T, U, start) ==
    Yield(ix, flt, U,
          RangeBetween(applyFilter(flt, ix.b[U]), start, Until(ix, T, start)))

\* Nested iteration down the kinds ks (ks[1] is the kind of r): the children
\* of kind ks[2] of r, of each of them the children of kind ks[3], and so on,
\* one after the other.
RECURSIVE Flatten(_, _, _)
Flatten(ix, ks, r) ==
    IF Len(ks) = 1 \/ r = -1 THEN <<r>>
    ELSE LET cs == childRefSeq(ix, NilBitmap, ks[1], ks[2], r)
         IN  Flat([i \in 1..Len(cs) |-> Flatten(ix, Tail(ks), cs[i])])

(***************************************************************************)
(* The snapshot is put together object by object, then loaded.             *)
(***************************************************************************)
\* The days of all the activities of the snapshot.
CountDays(data) == Len(Flat(Flat(Flat(Flat(data)))))

Built == ipc = "built"
Room == ipc = "input" /\ CountObjs(snap) - (IF bulk THEN ManyTimes ELSE 0) < MaxObj

AddFacility ==
    /\ Room
    /\ snap' = Append(snap, <<>>)
    /\ UNCHANGED <<cacheVars, viewVars, resolveVars, dateVars, restVars, bulk, idx, ipc>>

AddScheduleGroup ==
    /\ Room
    /\ \E f \in 1..Len(snap) :
          snap' = [snap EXCEPT ![f] = Append(@, <<>>)]
    /\ UNCHANGED <<cacheVars, viewVars, resolveVars, dateVars, restVars, bulk, idx, ipc>>

AddSchedule ==
    /\ Room
    /\ \E f \in 1..Len(snap) : \E g \in 1..Len(snap[f]) :
          snap' = [snap EXCEPT ![f][g] = Append(@, <<>>)]
    /\ UNCHANGED <<cacheVars, viewVars, resolveVars, dateVars, restVars, bulk, idx, ipc>>

AddActivity ==
    /\ Room
    /\ \E f \in 1..Len(snap) : \E g \in 1..Len(snap[f]) : \E s \in 1..Len(snap[f][g]) :
          snap' = [snap EXCEPT ![f][g][s] = Append(@, <<>>)]
    /\ UNCHANGED <<cacheVars, viewVars, resolveVars, dateVars, restVars, bulk, idx, ipc>>

AddDay ==
    /\ ipc = "input"
    /\ \E f \in 1..Len(snap) : \E g \in 1..Len(snap[f]) : \E s \in 1..Len(snap[f][g]) :
       \E a \in 1..Len(snap[f][g][s]) :
          /\ CountDays(snap) < MaxDays
          /\ snap' = [snap EXCEPT ![f][g][s][a] = Append(@, 0)]
    /\ UNCHANGED <<cacheVars, viewVars, resolveVars, dateVars, restVars, bulk, idx, ipc>>

AddTime ==
    /\ Room
    /\ \E f \in 1..Len(snap) : \E g \in 1..Len(snap[f]) : \E s \in 1..Len(snap[f][g]) :
       \E a \in 1..Len(snap[f][g][s]) : \E d \in 1..Len(snap[f][g][s][a]) :
          snap' = [snap EXCEPT ![f][g][s][a][d] = @ + 1]
    /\ UNCHANGED <<cacheVars, viewVars, resolveVars, dateVars, restVars, bulk, idx, ipc>>

\* One day of the snapshot gets ManyTimes times at once, so that the object
\* array is longer than a bitmap word.
AddManyTimes ==
    /\ ipc = "input" /\ ~bulk
    /\ \E f \in 1..Len(snap) : \E g \in 1..Len(snap[f]) : \E s \in 1..Len(snap[f][g]) :
       \E a \in 1..Len(snap[f][g][s]) : \E d \in 1..Len(snap[f][g][s][a]) :
          snap' = [snap EXCEPT ![f][g][s][a][d] = @ + ManyTimes]
    /\ bulk' = TRUE
    /\ UNCHANGED <<cacheVars, viewVars, resolveVars, dateVars, restVars, idx, ipc>>

\* Indexer.Load of the snapshot.
Load ==
    /\ ipc = "input"
    /\ idx' = index(snap)
    /\ ipc' = "built"
    /\ UNCHANGED <<cacheVars, viewVars, resolveVars, dateVars, restVars, snap, bulk>>

(***************************************************************************)
(* MutableDataRef: a DataRef with a filter that Remove, Filter and Elide   *)
(* clear bits of.  Every reference made from it shares the filter's words. *)
(***************************************************************************)
MaxViewObj == 6

\* bitmap.Ones: every bit of every word.
Ones(bm) == [bm EXCEPT !.bits = 0..(bm.len * WordBits - 1)]

\* bitmap.Remove: clears the bit, nothing when it is beyond the words.
BitmapRemove(bm, v) == IF v \div WordBits < bm.len THEN [bm EXCEPT !.bits = @ \ {v}] ELSE bm

\* baseRef.withFilter: a clone of the filter, or a new filter of all ones.
withFilter(ix, f) == IF IsNil(f) THEN Ones(makeBitmap(Len(ix.obj))) ELSE f

\* A typed reference as a caller passes it: of this Index, of another Index,
\* or the nil reference.
Ref(of, kind, obj) == [of |-> of, kind |-> kind, obj |-> obj]
NoRef == Ref("nil", "Data", 0)

\* mutRemoveRef that clears the object itself only.
mutRemoveRefSelf(ix, f, ref) ==
    IF ref.of # "this" THEN [ret |-> FALSE, flt |-> f]
    ELSE IF ref.obj \notin f.bits THEN [ret |-> FALSE, flt |-> f]
    ELSE [ret |-> TRUE, flt |-> BitmapRemove(f, ref.obj)]

\* mutRemoveRef[T](mut, ref)
mutRemoveRef(ix, f, ref) ==
    IF ref.of # "this" THEN [ret |-> FALSE, flt |-> f]
    ELSE IF ref.obj \notin f.bits THEN [ret |-> FALSE, flt |-> f]
    ELSE [ret |-> TRUE,
          flt |-> [f EXCEPT !.bits = @ \ (ref.obj..(Until(ix, ref.kind, ref.obj) - 1))]]

\* The loop of FilterT(fn): todo are the objects that the iterator, which
\* ranges over a clone made when the loop began, has still to yield; pass are
\* the objects fn returns true for.  r is the state of the loop: the filter,
\* the objects fn was called on, the count, and whether it panicked.
RECURSIVE FilterLoop(_, _, _, _, _)
FilterLoop(ix, T, pass, todo, r) ==
    IF Len(todo) = 0 \/ r.panic THEN r
    ELSE LET obj == Head(todo)
         IN  IF ~(Deref(ix, r.flt, "Data", 0) /\ Deref(ix, r.flt, T, obj))
             THEN [r EXCEPT !.panic = TRUE]
             ELSE IF obj \in pass
             THEN FilterLoop(ix, T, pass, Tail(todo), [r EXCEPT !.calls = Append(@, obj)])
             ELSE LET rm == mutRemoveRef(ix, r.flt, Ref("this", T, obj))
                  IN  IF ~rm.ret
                      THEN [r EXCEPT !.calls = Append(@, obj), !.panic = TRUE]
                      ELSE FilterLoop(ix, T, pass, Tail(todo),
                                      [r EXCEPT !.calls = Append(@, obj), !.flt = rm.flt, !.n = @ + 1])

\* The iterator ranging over the type bitmap without the filter.
ChildObjsAll(ix, f, T, U, start) == RangeBetween(ix.b[U], start, Until(ix, T, start))

\* The objects the iterator of childRefSeq ranges over (before reference()).
ChildObjs(ix, f, T, U, start) == RangeBetween(applyFilter(f, ix.b[U]), start, Until(ix, T, start))

\* mut.FilterFacilities(fn) .. mut.FilterTimes(fn)
FilterT(ix, f, T, pass) ==
    FilterLoop(ix, T, pass, ChildObjs(ix, f, "Data", T, 0),
               [flt |-> f, calls |-> <<>>, n |-> 0, panic |-> FALSE])

\* The loop of ElideT: x.Children().Empty() is asked of the filter as it is
\* when x is reached.
RECURSIVE ElideLoop(_, _, _, _)
ElideLoop(ix, T, todo, r) ==
    IF Len(todo) = 0 \/ r.panic THEN r
    ELSE LET x == Head(todo)
             U == Kinds[Level(T) + 1]
         IN  IF ~(Deref(ix, r.flt, "Data", 0) /\ Deref(ix, r.flt, T, x))
             THEN [r EXCEPT !.panic = TRUE]
             ELSE IF Len(childRefSeq(ix, r.flt, T, U, x)) = 0
             THEN ElideLoop(ix, T, Tail(todo),
                            [r EXCEPT !.flt = mutRemoveRef(ix, @, Ref("this", T, x)).flt, !.n = @ + 1])
             ELSE ElideLoop(ix, T, Tail(todo), r)

ElideT(ix, r, T) ==
    ElideLoop(ix, T, ChildObjs(ix, r.flt, "Data", T, 0), r)

\* Elide from the facilities down.
ElideTopDown(ix, f) ==
    ElideT(ix, ElideT(ix, ElideT(ix, ElideT(ix, [flt |-> f, calls |-> <<>>, n |-> 0, panic |-> FALSE],
        "Facility"), "ScheduleGroup"), "Schedule"), "Activity")

\* mut.Elide(): activities, schedules, schedule groups, facilities.
Elide(ix, f) ==
    ElideT(ix, ElideT(ix, ElideT(ix, ElideT(ix, [flt |-> f, calls |-> <<>>, n |-> 0, panic |-> FALSE],
        "Activity"), "Schedule"), "ScheduleGroup"), "Facility")

NoOp == [op |-> "none", ref |-> NoRef, kind |-> "Data", pass |-> {}, calls |-> <<>>, ret |-> FALSE, panic |-> FALSE]

Viewing == Built /\ ~IsNil(vflt) /\ ~vop.panic

\* idx.Data().Mutate(), of an Index of at most MaxViewObj objects.
Mutate ==
    /\ Built /\ IsNil(vflt)
    /\ Len(idx.obj) <= MaxViewObj
    /\ vflt' = withFilter(idx, vflt)
    /\ UNCHANGED <<cacheVars, indexVars, resolveVars, dateVars, restVars, vop>>

\* The references a caller can pass to RemoveT: of any object of this Index
\* but the Data, of another Index, and nil.
Refs ==
    {Ref("this", idx.obj[i + 1].kind, i) : i \in 1..(Len(idx.obj) - 1)}
      \cup {Ref("other", "Facility", 1), NoRef}

\* mut.RemoveFacility(ref) .. mut.RemoveTime(ref)
Remove ==
    /\ Viewing
    /\ \E ref \in Refs :
          LET rm == mutRemoveRef(idx, vflt, ref)
          IN  /\ vflt' = rm.flt
              /\ vop' = [NoOp EXCEPT !.op = "Remove", !.ref = ref, !.kind = ref.kind, !.ret = rm.ret]
    /\ UNCHANGED <<cacheVars, indexVars, resolveVars, dateVars, restVars>>

\* mut.FilterT(fn), fn being true of the objects pass.
Filter ==
    /\ Viewing
    /\ \E T \in KindSet \ {"Data"} : \E pass \in SUBSET (idx.b[T].bits \cap vflt.bits) :
          LET r == FilterT(idx, vflt, T, pass)
          IN  /\ vflt' = r.flt
              /\ vop' = [NoOp EXCEPT !.op = "Filter", !.kind = T, !.pass = pass,
                                     !.calls = r.calls, !.panic = r.panic]
    /\ UNCHANGED <<cacheVars, indexVars, resolveVars, dateVars, restVars>>

\* mut.Elide()
ElideAll ==
    /\ Viewing
    /\ LET r == Elide(idx, vflt)
       IN  /\ vflt' = r.flt
           /\ vop' = [NoOp EXCEPT !.op = "Elide", !.panic = r.panic]
    /\ UNCHANGED <<cacheVars, indexVars, resolveVars, dateVars, restVars>>

ViewInit ==
    /\ vflt = NilBitmap /\ vop = NoOp

(***************************************************************************)
(* Cache.ResolveVersion.  A string is its characters c followed by the     *)
(* base32 characters that the digest tails d stand for (31 each).  A time  *)
(* is the zero time.Time or a number of seconds since 2025-01-01T00:00:00  *)
(* in TZ.                                                                  *)
(***************************************************************************)
MaxRows == 3
EncodedLen == 32

Text(chars) == [c |-> chars, d |-> <<>>]
IDText(id) == [c |-> <<id[1]>>, d |-> <<id[2]>>]

\* len(s)
StrLen(s) == Len(s.c) + (EncodedLen - 1) * Len(s.d)

\* s[i] of a sequence of characters, "" where it has no character i.
At(s, i) == IF i \in 1..Len(s) THEN s[i] ELSE ""

Digits == <<"0", "1", "2", "3", "4", "5", "6", "7", "8", "9">>
IsDigit(c) == \E i \in 1..Len(Digits) : Digits[i] = c
DigitVal(c) == (CHOOSE i \in 1..Len(Digits) : Digits[i] = c) - 1

\* The decimal number of a string of digits.
RECURSIVE Atoi(_)
Atoi(s) == IF Len(s) = 0 THEN 0
           ELSE Atoi(SubSeq(s, 1, Len(s) - 1)) * 10 + DigitVal(s[Len(s)])

AllDigits(s) == Len(s) > 0 /\ \A i \in 1..Len(s) : IsDigit(At(s, i))

\* IsID
IsID(s) == StrLen(s) = EncodedLen

Time(sec) == [zero |-> FALSE, sec |-> sec]
ZeroTime == [zero |-> TRUE, sec |-> 0]

IsLeap(y) == y % 4 = 0 /\ (y % 100 # 0 \/ y % 400 = 0)

\* daysInMonth: the day of time.Date(year, month+1, 0, ...).
daysInMonth(year, month) ==
    IF month = 2 THEN (IF IsLeap(year) THEN 29 ELSE 28)
    ELSE IF month \in {4, 6, 9, 11} THEN 30 ELSE 31

RECURSIVE DaysBeforeMonth(_, _)
DaysBeforeMonth(y, m) == IF m <= 1 THEN 0 ELSE DaysBeforeMonth(y, m - 1) + daysInMonth(y, m - 1)
RECURSIVE DaysBeforeYear(_)
DaysBeforeYear(y) ==
    IF y <= 2025 THEN 0 ELSE DaysBeforeYear(y - 1) + (IF IsLeap(y - 1) THEN 366 ELSE 365)

\* time.Date(y, m, d, hh, mm, ss, 0, TZ): values out of range are normalised
\* (month 13 is January of the next year, day 0 the last day of the month
\* before, minute 60 the next hour).
Date(y, m, d, hh, mm, ss) ==
    LET yy == y + ((m - 1) \div 12)
        mo == ((m - 1) % 12) + 1
    IN  Time((DaysBeforeYear(yy) + DaysBeforeMonth(yy, mo) + d - 1) * 86400
             + hh * 3600 + mm * 60 + ss)

\* The field of n digits at s[i], -1 when they are not all digits.
Num(s, i, n) ==
    LET field == [k \in 1..n |-> At(s, i + k - 1)]
    IN  IF AllDigits(field) THEN Atoi(field) ELSE -1

\* The parse of a string of the length n of one of the four layouts, with
\* the hours the layout's hour field takes.
ParseLayout(n, str, hours) ==
    LET s  == str.c
        y  == Num(s, 1, 4)
        mo == Num(s, 6, 2)
        d  == IF n >= 10 THEN Num(s, 9, 2) ELSE 1
        hh == IF n < 16 THEN 0 ELSE IF Num(s, 12, 2) \in hours THEN Num(s, 12, 2) ELSE -1
        mm == IF n >= 16 THEN Num(s, 15, 2) ELSE 0
        ss == IF n >= 19 THEN Num(s, 18, 2) ELSE 0
        ok == /\ y >= 0 /\ At(s, 5) = "-" /\ mo \in 1..12
              /\ n >= 10 => (At(s, 8) = "-" /\ d >= 0)
              /\ n >= 16 => (At(s, 11) = "T" /\ hh >= 0 /\ At(s, 14) = ":" /\ mm \in 0..59)
              /\ n >= 19 => (At(s, 17) = ":" /\ ss \in 0..59)
              /\ d >= 1 /\ d <= daysInMonth(y, mo)
              /\ str.d = <<>>
    IN  [ok |-> ok, y |-> y, m |-> mo, d |-> d, hh |-> hh, mm |-> mm, ss |-> ss]

\* time.ParseInLocation(layout, spec, TZ) for the four layouts "2006-01",
\* "2006-01-02", "2006-01-02T03:04" and "2006-01-02T03:04:05", named by
\* their length; spec has that length.  "03" is the hour of the 12-hour clock.
ParseInLocation(n, str) == ParseLayout(n, str, 0..12)

\* strconv.ParseInt(s, 10, 64): err, or the sign and the digits of the value
\* without leading zeros (<<>> for zero).
RECURSIVE StripZeros(_)
StripZeros(s) == IF Len(s) > 0 /\ s[1] = "0" THEN StripZeros(Tail(s)) ELSE s

MaxInt64 == <<"9","2","2","3","3","7","2","0","3","6","8","5","4","7","7","5","8","0","7">>
RECURSIVE DigitsLeq(_, _)
DigitsLeq(a, b) ==
    IF Len(a) # Len(b) THEN Len(a) < Len(b)
    ELSE IF Len(a) = 0 THEN TRUE
    ELSE IF DigitVal(a[1]) # DigitVal(b[1]) THEN DigitVal(a[1]) < DigitVal(b[1])
    ELSE DigitsLeq(Tail(a), Tail(b))

MinInt64Mag == [MaxInt64 EXCEPT ![Len(MaxInt64)] = "8"]

ParseInt(s) ==
    LET signed == At(s, 1) \in {"-", "+"}
        body   == IF signed THEN Tail(s) ELSE s
        mag    == StripZeros(body)
        fits   == DigitsLeq(mag, MaxInt64) \/ (At(s, 1) = "-" /\ mag = MinInt64Mag)
    IN  IF ~AllDigits(body) \/ ~fits
        THEN [err |-> TRUE, neg |-> FALSE, mag |-> <<>>]
        ELSE [err |-> FALSE, neg |-> At(s, 1) = "-" /\ mag # <<>>, mag |-> mag]

Latest == <<"l", "a", "t", "e", "s", "t">>
HasPrefix(s, pre) == \A i \in 1..Len(pre) : At(s.c, i) = pre[i]

\* The rows of data in ORDER BY updated DESC, revision DESC.
RowsOf(data) == {data[i] : i \in 1..Len(data)}
Rank(rows, r) ==
    Cardinality({q \in rows : \/ q.updated > r.updated
                              \/ q.updated = r.updated /\ q.revision > r.revision})

\* strconv.FormatInt(-n, 10) of a negative int64 n of magnitude mag: -n wraps
\* to n itself when n is the least int64.
FormatNeg(mag) == [neg |-> mag = MinInt64Mag, mag |-> mag]
NoOffset == [neg |-> FALSE, mag |-> <<>>]

\* getOne(`... ORDER BY updated DESC, revision DESC LIMIT 1 OFFSET k`) over
\* the rows the WHERE clause keeps.  A negative OFFSET skips no row, and one
\* of more than nine digits is beyond every table of the model.  No row is
\* sql.ErrNoRows, and fail is any other error of the query.
getOne(rows, offset, fail) ==
    LET skip == IF offset.neg THEN 0
                ELSE IF Len(offset.mag) > 9 THEN Cardinality(rows)
                ELSE Atoi(offset.mag)
        hits == {r \in rows : Rank(rows, r) = skip}
    IN  IF fail THEN [id |-> <<>>, updated |-> ZeroTime, ok |-> TRUE, err |-> TRUE]
        ELSE IF hits = {}
        THEN [id |-> <<>>, updated |-> ZeroTime, ok |-> TRUE, err |-> FALSE]
        ELSE LET r == CHOOSE r \in hits : TRUE
             IN  [id |-> r.id, updated |-> Time(r.updated), ok |-> TRUE, err |-> FALSE]

\* The upper bound ResolveVersion computes for a date prefix (zero: none);
\* for "2006-01" it is time.Date(y, m+1, 0, 0, 0, 0, 0, TZ).
Upper(s) ==
    LET n == StrLen(s)
        t == ParseInLocation(n, s)
    IN  IF n \notin {7, 10, 16, 19} \/ ~t.ok THEN ZeroTime
        ELSE IF n = 7  THEN Date(t.y, t.m + 1, 0, 0, 0, 0)
        ELSE IF n = 10 THEN Date(t.y, t.m, t.d + 1, 0, 0, 0)
        ELSE IF n = 16 THEN Date(t.y, t.m, t.d, t.hh, t.mm + 1, 0)
        ELSE Date(t.y, t.m, t.d, t.hh, t.mm, t.ss + 1)

\* ResolveVersion(ctx, spec) over the table data.
ResolveVersion(data, spec, fail) ==
    LET rows   == RowsOf(data)
        offset == [spec EXCEPT !.c = SubSeq(@, Len(Latest) + 1, Len(@))]
        n      == ParseInt(offset.c)
        upper  == Upper(spec)
    IN  IF IsID(spec) THEN getOne({r \in rows : IDText(r.id) = spec}, NoOffset, fail)
        ELSE IF HasPrefix(spec, Latest) /\ StrLen(offset) = 0 THEN getOne(rows, NoOffset, fail)
        ELSE IF HasPrefix(spec, Latest) /\ offset.d = <<>> /\ ~n.err /\ n.neg
        THEN getOne(rows, FormatNeg(n.mag), fail)
        ELSE IF ~upper.zero
        THEN getOne({r \in rows : r.updated < upper.sec}, NoOffset, fail)
        ELSE [id |-> <<>>, updated |-> ZeroTime, ok |-> FALSE, err |-> FALSE]

\* The inputs of ResolveVersion.  Snapshots whose facilities were scraped at
\* the first second of a day, on the last day of a month, twice at the same
\* second of an afternoon, and in a morning.
Stamp(m, d, hh, mm, ss) == Date(2025, m, d, hh, mm, ss).sec

DatedPushes ==
    << [tree |-> Tree(<<1, Stamp(10, 3, 0, 0, 0)>>, <<9>>),      date |-> 1],
       [tree |-> Tree(<<1, Stamp(9, 30, 12, 0, 0)>>, <<9>>),     date |-> 1],
       [tree |-> Tree(<<1, Stamp(10, 2, 13, 30, 15)>>, <<9>>),   date |-> 2],
       [tree |-> Tree(<<1, Stamp(10, 2, 13, 30, 15)>>, <<9, 9>>), date |-> 2],
       [tree |-> Tree(<<1, Stamp(10, 2, 9, 5, 7)>>, <<9>>),      date |-> 2] >>

\* The store after Import has imported the commits ps, one on top of the
\* other, without an error.
RECURSIVE Imported(_)
Imported(ps) ==
    IF ps = <<>>
    THEN [store |-> [commits |-> {}, data |-> <<>>, files |-> {}, blobs |-> {}],
          res |-> "none", why |-> "none"]
    ELSE LET n == Len(ps)
         IN  importCommit(Imported(SubSeq(ps, 1, n - 1)).store,
                          [hash |-> n, date |-> ps[n].date, tree |-> ps[n].tree],
                          0, "none")

\* The commits of a repository: up to MaxRows of DatedPushes, in that order.
PushSeqs ==
    {ps \in UNION {[1..n -> 1..Len(DatedPushes)] : n \in 0..MaxRows} :
        \A i, j \in 1..Len(ps) : i < j => ps[i] < ps[j]}

Fmt2(n) == <<Digits[((n \div 10) % 10) + 1], Digits[(n % 10) + 1]>>

\* The first n characters of YYYY-MM-DDTHH:MM:SS.
DateSpec(n, y, m, d, hh, mm, ss) ==
    SubSeq(Fmt2(y \div 100) \o Fmt2(y % 100) \o <<"-">> \o Fmt2(m) \o <<"-">> \o Fmt2(d)
           \o <<"T">> \o Fmt2(hh) \o <<":">> \o Fmt2(mm) \o <<":">> \o Fmt2(ss), 1, n)

DateSpecs ==
    {DateSpec(7, 2025, m, 1, 0, 0, 0) : m \in {0, 9, 10, 11, 13}}
    \cup {DateSpec(10, 2025, m, d, 0, 0, 0) : m \in {9, 10}, d \in {0, 2, 3, 30, 31}}
    \cup {DateSpec(16, 2025, 10, 2, hh, mm, 0) : hh \in {0, 9, 12, 13, 23, 24}, mm \in {5, 30, 60}}
    \cup {DateSpec(19, 2025, 10, 2, 13, 30, ss) : ss \in {14, 15, 59}}
    \cup {DateSpec(19, 2025, 10, 2, 9, 5, ss) : ss \in {6, 7, 59, 60}}

LatestSpecs ==
    {Latest}
    \cup {Latest \o <<"-">> \o n : n \in {<<"0">>, <<"1">>, <<"2">>, <<"3">>, <<"0", "1">>,
                                         <<"x">>, <<"-", "1">>, <<>>,
                                         MaxInt64, MinInt64Mag,
                                         [MaxInt64 EXCEPT ![Len(MaxInt64)] = "9"]}}
    \cup {Latest \o <<"+", "1">>, Latest \o <<"1">>, <<"l", "a", "t", "e", "s", "t", "s">>}

Specs(data) ==
    {Text(s) : s \in DateSpecs \cup LatestSpecs}
    \cup {Text(s) : s \in {<<>>, <<"2", "0", "2", "5">>, <<"2", "0", "2", "5", "/", "1", "0">>,
                            <<"2", "0", "2", "5", "-", "1", "x">>,
                            [DateSpec(16, 2025, 10, 2, 9, 5, 0) EXCEPT ![11] = " "]}}
    \cup {IDText(id) : id \in DataIDs(data) \cup {base32sha1(<<5>>), DupID(<<<<5>>>>)}}

\* A call of ResolveVersion(ctx, spec); fail: the query returns an error
\* other than sql.ErrNoRows.
Resolve ==
    /\ pc = "idle"
    /\ \E spec \in Specs(tData), fail \in BOOLEAN :
          LET r == ResolveVersion(tData, spec, fail)
          IN  rres' = [spec |-> spec, fail |-> fail, id |-> r.id, updated |-> r.updated,
                       ok |-> r.ok, err |-> r.err, called |-> TRUE]
    /\ UNCHANGED <<cacheVars, indexVars, viewVars, dateVars, restVars>>

ResolveInit ==
    rres = [spec |-> Text(<<>>), fail |-> FALSE, id |-> <<>>, updated |-> ZeroTime,
            ok |-> FALSE, err |-> FALSE, called |-> FALSE]

\* The cache after an Import of up to MaxRows commits, at rest.
CacheImported ==
    \E ps \in PushSeqs :
        LET r == Imported([i \in 1..Len(ps) |-> DatedPushes[ps[i]]])
            S == r.store
        IN  /\ chain = [i \in 1..Len(ps) |->
                          [hash |-> i, date |-> DatedPushes[ps[i]].date,
                           tree |-> DatedPushes[ps[i]].tree]]
            /\ nhash = Len(ps)
            /\ tCommits = S.commits /\ tData = S.data
            /\ tFiles = S.files /\ tBlobs = S.blobs
            /\ pc = "idle" /\ walk = <<>> /\ walked = 1..Len(ps)
            /\ ret = (IF ps = <<>> THEN "none" ELSE "nil")
            /\ last = [hash |-> Len(ps), res |-> r.res, why |-> r.why]

(***************************************************************************)
(* ScheduleRef.ComputeEffectiveDateRange and its cache in the Index.  A    *)
(* schema.Date is its year, month and day, 0 where the field is not set,   *)
(* and what IsValid says of it.  A time.Time of a date range is the zero   *)
(* time or a tick: 2*n is 00:00 of day n after 2025-01-01 in TZ, and       *)
(* 2*n - 1 the nanosecond before it.                                       *)
(***************************************************************************)
MaxOthers == 2
Years == 2025..2028

PDate(y, m, d, valid) == [y |-> y, m |-> m, d |-> d, valid |-> valid]

\* schema.Date.IsZero
DateIsZero(x) == x.y = 0 /\ x.m = 0 /\ x.d = 0

NoTime == [zero |-> TRUE, tick |-> 0]
Tick(n) == [zero |-> FALSE, tick |-> n]

\* The day number of time.Date(y, m, d, 0, 0, 0, 0, TZ); a day past the end
\* of the month runs into the next one.
DayNumber(y, m, d) == DaysBeforeYear(y) + DaysBeforeMonth(y, m) + d - 1

\* t.Year() and t.Month()
YearOf(t) ==
    CHOOSE y \in Years :
        2 * DayNumber(y, 1, 1) <= t.tick /\ t.tick < 2 * DayNumber(y + 1, 1, 1)
MonthOf(t) ==
    CHOOSE m \in 1..12 :
        /\ 2 * DayNumber(YearOf(t), m, 1) <= t.tick
        /\ t.tick < 2 * DayNumber(YearOf(t), m + 1, 1)

\* a.After(b): the zero time is before every other.
TimeAfter(a, b) == ~a.zero /\ (b.zero \/ a.tick > b.tick)

\* The from date: the time, or give up.
FromDate(x, scheduleDate) ==
    IF DateIsZero(x) THEN [stop |-> FALSE, t |-> NoTime]
    ELSE IF ~x.valid \/ x.m = 0 \/ (x.y = 0 /\ scheduleDate.zero)
    THEN [stop |-> TRUE, t |-> NoTime]
    ELSE [stop |-> FALSE,
          t |-> Tick(2 * DayNumber(IF x.y = 0 THEN YearOf(scheduleDate) ELSE x.y,
                                   x.m,
                                   IF x.d = 0 THEN 1 ELSE x.d))]

\* The month of the to date that is never taken from the from date.
ToMonthOwn(x, from) == x.m

\* if there's no month set, and there's no year or the from year is equal,
\* use the from month
ToMonth(x, from) ==
    IF x.m = 0 /\ ~from.zero /\ (x.y = 0 \/ YearOf(from) = x.y)
    THEN MonthOf(from) ELSE x.m

\* if there's no year set, figure it out
ToYear(x, month, from, scheduleDate) ==
    LET year == IF ~from.zero THEN YearOf(from) ELSE YearOf(scheduleDate)
    IN  IF x.y # 0 THEN x.y
        ELSE IF ~from.zero /\ YearOf(from) = year
        THEN (IF month < MonthOf(from) THEN year + 1 ELSE year)
        ELSE IF ~scheduleDate.zero /\ YearOf(scheduleDate) = year
        THEN (IF month < MonthOf(scheduleDate) THEN year + 1 ELSE year)
        ELSE year

\* The to date: the time, or give up.
ToDate(x, from, scheduleDate) ==
    LET month == ToMonth(x, from)
        year  == ToYear(x, month, from, scheduleDate)
        day   == IF x.d = 0 THEN daysInMonth(year, month) ELSE x.d
    IN  IF DateIsZero(x) THEN [stop |-> FALSE, t |-> NoTime]
        ELSE IF ~x.valid \/ month = 0 \/ (x.y = 0 /\ from.zero /\ scheduleDate.zero)
        THEN [stop |-> TRUE, t |-> NoTime]
        ELSE [stop |-> FALSE, t |-> Tick(2 * DayNumber(year, month, day + 1) - 1)]

\* The schedules of the snapshot in the order of the Index (nthOfType), each
\* with the facility it is in.
RECURSIVE SchedulesOf(_, _)
SchedulesOf(data, f) ==
    IF f > Len(data) THEN <<>>
    ELSE [k \in 1..Len(data[f].schedules) |-> [fac |-> f, range |-> data[f].schedules[k]]]
         \o SchedulesOf(data, f + 1)

\* ComputeEffectiveDateRange of the i-th schedule, on the Index ix of data.
ComputeEffectiveDateRange(ix, data, i) ==
    LET s  == SchedulesOf(data, 1)[i]
        sd == IF ~data[s.fac].source.zero THEN data[s.fac].source ELSE ix.updated
        r  == s.range
        f  == FromDate(r.from, sd)
        t  == ToDate(r.to, f.t, sd)
    IN  IF ix.cached
        THEN [from |-> ix.from[i], to |-> ix.to[i], ok |-> ix.ok[i]]
        ELSE IF DateIsZero(r.from) /\ DateIsZero(r.to)
        THEN [from |-> NoTime, to |-> NoTime, ok |-> FALSE]
        ELSE IF f.stop THEN [from |-> NoTime, to |-> NoTime, ok |-> FALSE]
        ELSE IF t.stop THEN [from |-> f.t, to |-> NoTime, ok |-> FALSE]
        ELSE [from |-> f.t, to |-> t.t,
              ok |-> ~(f.t.zero /\ t.t.zero) /\ ~TimeAfter(f.t, t.t)]

\* ScheduleRef.GetDayDate of the day of the time: the date the day label of
\* the schedule parses as, ok when it is a date and not a weekday.
GetDayDate(sch) == [d |-> sch.day, ok |-> ~DateIsZero(sch.day)]

\* t.Date(): the day of the month.
DayOf(t) == (t.tick \div 2) - DayNumber(YearOf(t), MonthOf(t), 1) + 1

\* The year SingleDate takes from an effective date range of two years
\* (0: none): toYear, toMonth, toDay := from.Date().
SpanYear(from, to, month, day) ==
    LET toYear  == YearOf(from)
        toMonth == MonthOf(from)
        toDay   == DayOf(from)
    IN  IF YearOf(from) + 1 # toYear THEN 0
        ELSE IF /\ month < MonthOf(from) \/ (month = MonthOf(from) /\ day < DayOf(from))
                /\ month < toMonth \/ (month = toMonth /\ day < toDay)
        THEN YearOf(from) + 1
        ELSE YearOf(from)

\* TimeRef.SingleDate of the time of the i-th schedule.
SingleDate(ix, data, i) ==
    LET Year(g, r) ==
            IF g.d.y # 0 THEN g.d.y
            ELSE IF ~r.ok THEN 0
            ELSE IF r.from.zero THEN YearOf(r.to)
            ELSE IF r.to.zero \/ YearOf(r.from) = YearOf(r.to) THEN YearOf(r.from)
            ELSE SpanYear(r.from, r.to, g.d.m, g.d.d)
        On(g, year) ==
            IF ~g.ok \/ g.d.m = 0 \/ g.d.d = 0 \/ year = 0 THEN [t |-> NoTime, ok |-> FALSE]
            ELSE [t |-> Tick(2 * DayNumber(year, g.d.m, g.d.d)), ok |-> TRUE]
        Of(g, r) == On(g, Year(g, r))
    IN  Of(GetDayDate(SchedulesOf(data, 1)[i].range), ComputeEffectiveDateRange(ix, data, i))

\* The loop over the facilities that sets idx.updated.
RECURSIVE UpdatedAfter(_, _)
UpdatedAfter(data, n) ==
    IF n = 0 THEN NoTime
    ELSE LET u == UpdatedAfter(data, n - 1)
             d == data[n].source
         IN  IF ~d.zero /\ TimeAfter(d, u) THEN d ELSE u

NoDateIndex == [cached |-> FALSE, updated |-> NoTime, from |-> <<>>, to |-> <<>>, ok |-> <<>>]

\* The end of index(): the effective date ranges are computed and cached,
\* then idx.updated is set.
indexDates(data) ==
    LET n  == Len(SchedulesOf(data, 1))
        rs == [i \in 1..n |-> ComputeEffectiveDateRange(NoDateIndex, data, i)]
    IN  [cached  |-> TRUE,
         updated |-> UpdatedAfter(data, Len(data)),
         from    |-> [i \in 1..n |-> rs[i].from],
         to      |-> [i \in 1..n |-> rs[i].to],
         ok      |-> [i \in 1..n |-> rs[i].ok]]

\* The inputs: source dates, from dates and to dates of a schedule.
SourceDates == {NoTime, Tick(2 * DayNumber(2025, 10, 1)), Tick(2 * DayNumber(2026, 1, 15))}
FromDates ==
    {PDate(0, 0, 0, TRUE), PDate(0, 9, 5, TRUE), PDate(0, 9, 20, TRUE), PDate(2025, 9, 5, TRUE),
     PDate(0, 0, 5, TRUE), PDate(0, 12, 0, TRUE), PDate(0, 9, 5, FALSE)}
ToDates ==
    {PDate(0, 0, 0, TRUE), PDate(0, 10, 3, TRUE), PDate(0, 0, 12, TRUE), PDate(0, 0, 31, TRUE),
     PDate(2025, 0, 12, TRUE), PDate(2026, 0, 12, TRUE), PDate(0, 1, 0, TRUE),
     PDate(0, 1, 31, TRUE), PDate(0, 0, 12, FALSE)}

\* The day labels of a schedule's column: a weekday (no date), or a date.
DayDates ==
    {PDate(0, 0, 0, TRUE), PDate(0, 12, 15, TRUE), PDate(0, 1, 10, TRUE),
     PDate(0, 9, 10, TRUE), PDate(2026, 1, 10, TRUE)}

NoRange == [op |-> "none", i |-> 0, from |-> NoTime, to |-> NoTime, ok |-> FALSE]

\* A snapshot is handed to the indexer: a facility with a schedule, and up to
\* MaxOthers facilities without one.
DateInit ==
    /\ \E sd \in SourceDates, f \in FromDates, t \in ToDates, day \in DayDates :
       \E o \in UNION {[1..n -> SourceDates] : n \in 0..MaxOthers} :
          dat = <<[source |-> sd, schedules |-> <<[from |-> f, to |-> t, day |-> day]>>]>>
                \o [k \in 1..Len(o) |-> [source |-> o[k], schedules |-> <<>>]]
    /\ dix = NoDateIndex
    /\ dres = NoRange

\* Indexer.Load: index() up to its precomputation.
LoadDates ==
    /\ ~dix.cached
    /\ dix' = indexDates(dat)
    /\ UNCHANGED <<cacheVars, indexVars, viewVars, resolveVars, restVars, dat, dres>>

\* A call of ComputeEffectiveDateRange on a schedule of the built Index.
EffectiveDateRange ==
    /\ dix.cached
    /\ \E i \in 1..Len(SchedulesOf(dat, 1)) :
          LET r == ComputeEffectiveDateRange(dix, dat, i)
          IN  dres' = [op |-> "range", i |-> i, from |-> r.from, to |-> r.to, ok |-> r.ok]
    /\ UNCHANGED <<cacheVars, indexVars, viewVars, resolveVars, restVars, dat, dix>>

\* A call of SingleDate on the time of a schedule of the built Index.
CallSingleDate ==
    /\ dix.cached
    /\ \E i \in 1..Len(SchedulesOf(dat, 1)) :
          LET r == SingleDate(dix, dat, i)
          IN  dres' = [op |-> "single", i |-> i, from |-> r.t, to |-> NoTime, ok |-> r.ok]
    /\ UNCHANGED <<cacheVars, indexVars, viewVars, resolveVars, restVars, dat, dix>>

(***************************************************************************)
(* The export dataset (pkg/ottrecsimple New) and its CSV writer.  A string *)
(* is the sequence of its bytes.  Of a row only the columns that refer to  *)
(* the html table, and the text columns of error, html and attribution,    *)
(* are kept.                                                               *)
(***************************************************************************)
MaxFacs == 1

\* strings.ReplaceAll(s, old, "") for a one-byte old.
ReplaceAll(s, old) == SelectSeq(s, LAMBDA c : c # old)

\* The closure addHTML of New: r holds the html table, the map htmlID and
\* the id returned last.
addHTML(r, s) ==
    IF s \in DOMAIN r.htmlID
    THEN [r EXCEPT !.id = r.htmlID[s]]
    ELSE [HTML |-> Append(r.HTML, [id |-> Len(r.HTML), html |-> s]),
          htmlID |-> [k \in DOMAIN r.htmlID \cup {s} |->
                        IF k = s THEN Len(r.HTML) ELSE r.htmlID[k]],
          id |-> Len(r.HTML)]

\* New: the tables made of the facilities and the attribution of data.
RECURSIVE NewFrom(_, _, _)
NewFrom(data, n, res) ==
    IF n > Len(data.facilities) THEN
        [facility |-> res.facility, activity |-> res.activity, error |-> res.error,
         html |-> res.html.HTML,
         attribution |-> [k \in 1..Len(data.attribution) |-> [text |-> data.attribution[k]]]]
    ELSE
        LET fac == data.facilities[n]
            h0 == [res.html EXCEPT !.id = 0]
            h1 == IF fac.special # <<>> THEN addHTML(h0, ReplaceAll(fac.special, 10)) ELSE h0
            h2 == IF fac.notifications # <<>>
                  THEN addHTML([h1 EXCEPT !.id = 0], ReplaceAll(fac.notifications, 10))
                  ELSE [h1 EXCEPT !.id = 0]
            h3 == IF fac.changes # <<>> THEN addHTML([h2 EXCEPT !.id = 0], fac.changes)
                  ELSE [h2 EXCEPT !.id = 0]
            rf == [facility_special_hours_html_id |-> h1.id,
                   facility_notifications_html_id |-> h2.id]
            ra == [activity_exceptions_html_id |-> h3.id]
        IN  NewFrom(data, n + 1,
                [facility |-> Append(res.facility, rf),
                 activity |-> IF fac.times = 0 THEN res.activity ELSE Append(res.activity, ra),
                 error |-> res.error \o [k \in 1..Len(fac.errors) |-> [error |-> fac.errors[k]]],
                 html |-> IF fac.times = 0 THEN h2 ELSE h3])

New(data) ==
    NewFrom(data, 1,
        [facility |-> <<>>, activity |-> <<>>, error |-> <<>>,
         html |-> [HTML |-> <<[id |-> 0, html |-> <<>>]>>, htmlID |-> <<>>, id |-> 0]])

\* The tables of Data in source order, and the scsv names of their columns.
Tables == <<"facility", "activity", "error", "html", "attribution">>

Columns(table) ==
    CASE table = "facility" ->
            <<"facility_special_hours_html_id", "facility_notifications_html_id">>
      [] table = "activity" -> <<"activity_exceptions_html_id">>
      [] table = "error" -> <<"error">>
      [] table = "html" -> <<"id", "html">>
      [] table = "attribution" -> <<"text">>

\* writeRowCSV: one line, the column names of the row (header) or its fields.
writeRowCSV(cols, val, header) ==
    [k \in 1..Len(cols) |-> IF header THEN [name |-> cols[k]] ELSE [field |-> val[cols[k]]]]

\* writeTableRowsCSV: the lines appended to w for the rows val[j..].
RECURSIVE writeTableRowsCSV(_, _, _, _)
writeTableRowsCSV(w, cols, val, j) ==
    IF j > Len(val) THEN w
    ELSE LET w1 == IF j = 1 THEN Append(w, writeRowCSV(cols, val[j], TRUE)) ELSE w
         IN  writeTableRowsCSV(Append(w1, writeRowCSV(cols, val[j], FALSE)), cols, val, j + 1)

\* The html a facility or a schedule group can hold: none, a newline, text,
\* text and a newline.
Htmls == {<<>>, <<10>>, <<97>>, <<97, 10>>}

SourceFacilities ==
    [special : Htmls, notifications : {<<>>, <<10>>, <<97>>}, times : 0..1,
     changes : {<<97>>, <<97, 10>>}, errors : {<<>>, <<<<101>>>>}]

Snapshots ==
    [facilities : UNION {[1..n -> SourceFacilities] : n \in 0..MaxFacs},
     attribution : {<<>>, <<<<97>>>>}]

NoCSV == [table |-> "", rows |-> 0, lines |-> <<>>]

ExportInit == sdat \in Snapshots /\ exp = <<>> /\ out = NoCSV

NoExport == sdat = <<>> /\ exp = <<>> /\ out = NoCSV

\* The export task makes the dataset of the snapshot.
CallNew ==
    /\ sdat # <<>> /\ exp = <<>>
    /\ exp' = <<New(sdat)>>
    /\ UNCHANGED <<cacheVars, indexVars, viewVars, resolveVars, dateVars, jsonVars, serveVars, timerVars, sdat, out>>

\* CSV yields a table of the dataset and the bytes written for it.
CallCSV ==
    /\ exp # <<>>
    /\ \E i \in 1..Len(Tables) :
          LET val == exp[1][Tables[i]]
          IN  out' = [table |-> Tables[i], rows |-> Len(val),
                      lines |-> writeTableRowsCSV(<<>>, Columns(Tables[i]), val, 1)]
    /\ UNCHANGED <<cacheVars, indexVars, viewVars, resolveVars, dateVars, jsonVars, serveVars, timerVars, sdat, exp>>

(***************************************************************************)
(* The JSON string writers: appendQuoteJSON of pkg/ottrecexp (jsonwire.go) *)
(* and appendStringJSON of pkg/ottrecsimple.  Strings and the output are   *)
(* sequences of bytes; an index i of the Go code is the byte i + 1 here.   *)
(***************************************************************************)
MaxLen == 3

RuneSelf == 128

RuneError == 65533

\* utf8.DecodeRune of the bytes b[i..]: the rune and its width, RuneError
\* and 1 for a byte that starts no valid encoding.
DecodeRune(b, i) ==
    LET b0 == b[i]
        cont(k) == i + k <= Len(b) /\ b[i + k] \in 128..191
        bad == [r |-> RuneError, size |-> 1]
    IN  IF b0 < RuneSelf THEN [r |-> b0, size |-> 1]
        ELSE IF b0 \in 194..223 THEN
            IF cont(1) THEN [r |-> (b0 - 192) * 64 + (b[i + 1] - 128), size |-> 2] ELSE bad
        ELSE IF b0 \in 224..239 THEN
            IF cont(1) /\ cont(2) /\ (b0 = 224 => b[i + 1] >= 160) /\ (b0 = 237 => b[i + 1] <= 159)
            THEN [r |-> (b0 - 224) * 4096 + (b[i + 1] - 128) * 64 + (b[i + 2] - 128), size |-> 3]
            ELSE bad
        ELSE IF b0 \in 240..244 THEN
            IF cont(1) /\ cont(2) /\ cont(3) /\ (b0 = 240 => b[i + 1] >= 144)
                 /\ (b0 = 244 => b[i + 1] <= 143)
            THEN [r |-> (b0 - 240) * 262144 + (b[i + 1] - 128) * 4096 + (b[i + 2] - 128) * 64
                          + (b[i + 3] - 128), size |-> 4]
            ELSE bad
        ELSE bad

\* hex[x] of "0123456789abcdef".
Hex(x) == IF x < 10 THEN 48 + x ELSE 87 + x

\* appendEscapedASCII: the escape of an ASCII byte.
appendEscapedASCII(c) ==
    CASE c \in {34, 92} -> <<92, c>>
      [] c = 8 -> <<92, 98>>
      [] c = 12 -> <<92, 102>>
      [] c = 10 -> <<92, 110>>
      [] c = 13 -> <<92, 114>>
      [] c = 9 -> <<92, 116>>
      [] OTHER -> <<92, 117, 48, 48, Hex(c \div 16), Hex(c % 16)>>

\* The loop of appendQuoteJSON with escapeForHTML = false, escapeForJS = false
\* and allowInvalidUTF8 = true: src[i:n] is read and not yet appended.
RECURSIVE appendQuoteJSONFrom(_, _, _, _)
appendQuoteJSONFrom(dst, src, i, n) ==
    IF n >= Len(src) THEN dst \o SubSeq(src, i + 1, n) \o <<34>>
    ELSE LET c == src[n + 1]
         IN  IF c < RuneSelf THEN
                 IF c >= 32 /\ c \notin {34, 38, 60, 62, 92} THEN
                     appendQuoteJSONFrom(dst, src, i, n + 1)
                 ELSE IF c \in {38, 60, 62} THEN appendQuoteJSONFrom(dst, src, i, n + 1)
                 ELSE appendQuoteJSONFrom(dst \o SubSeq(src, i + 1, n) \o appendEscapedASCII(c),
                                          src, n + 1, n + 1)
             ELSE LET d == DecodeRune(src, n + 1)
                  IN  IF d.r # RuneError /\ d.r # 8232 /\ d.r # 8233 THEN
                          appendQuoteJSONFrom(dst, src, i, n + d.size)
                      ELSE IF d.r = RuneError /\ d.size = 1 THEN
                          appendQuoteJSONFrom(dst \o SubSeq(src, i + 1, n) \o <<239, 191, 189>>,
                                              src, n + d.size, n + d.size)
                      ELSE appendQuoteJSONFrom(dst, src, i, n + d.size)

appendQuoteJSON(dst, src) == appendQuoteJSONFrom(dst \o <<34>>, src, 0, 0)

\* The loop `for i := range len(s)` of appendStringJSON: i takes every value
\* below len(s) whatever the body adds to it, and the body's i++ and
\* i += size only reach start.
RECURSIVE appendStringJSONFrom(_, _, _, _)
appendStringJSONFrom(e, s, start, i) ==
    IF i >= Len(s) THEN
        (IF start < Len(s) THEN e \o SubSeq(s, start + 1, Len(s)) ELSE e) \o <<34>>
    ELSE LET b == s[i + 1]
             pre == IF start < i THEN e \o SubSeq(s, start + 1, i) ELSE e
         IN  IF b < RuneSelf THEN
                 IF b >= 32 /\ b \notin {34, 92} THEN appendStringJSONFrom(e, s, start, i + 1)
                 ELSE appendStringJSONFrom(
                          pre \o <<92>> \o
                              (CASE b \in {34, 92} -> <<b>>
                                 [] b = 10 -> <<110>>
                                 [] b = 13 -> <<114>>
                                 [] b = 9 -> <<116>>
                                 [] OTHER -> <<117, 48, 48, Hex(b \div 16), Hex(b % 16)>>),
                          s, i + 1, i + 1)
             ELSE LET d == DecodeRune(s, i + 1)
                  IN  IF d.r = RuneError /\ d.size = 1 THEN
                          appendStringJSONFrom(pre \o <<92, 117, 102, 102, 102, 100>>,
                                               s, i + d.size, i + 1)
                      ELSE IF d.r \in {8232, 8233} THEN
                          appendStringJSONFrom(pre \o <<92, 117, 50, 48, 50, Hex(d.r % 16)>>,
                                               s, i + d.size, i + 1)
                      ELSE appendStringJSONFrom(e, s, start, i + 1)

appendStringJSON(e, s) == appendStringJSONFrom(e \o <<34>>, s, 0, 0)

\* The bytes a string value is made of: newline, quote, <, A, and the bytes
\* of U+00E9 (195 169), U+2028 (226 128 168) and U+2029 (226 128 169).
JsonBytes == {10, 34, 60, 65, 128, 168, 169, 195, 226}

JsonInit == jstr \in UNION {[1..n -> JsonBytes] : n \in 0..MaxLen} /\ jout = <<>>

NoJSON == jstr = <<>> /\ jout = <<>>

\* The JSON export writes the string value with one of the two writers.
CallJSON(fn) ==
    /\ jout = <<>>
    /\ jout' = [fn |-> fn, in |-> jstr,
                bytes |-> IF fn = "appendQuoteJSON" THEN appendQuoteJSON(<<>>, jstr)
                          ELSE appendStringJSON(<<>>, jstr)]
    /\ UNCHANGED <<cacheVars, indexVars, viewVars, resolveVars, dateVars, exportVars, serveVars, timerVars, jstr>>

(***************************************************************************)
(* The export handler (routes/data.go dataExportHandler) and the file      *)
(* handler of the data API (dataAPIv1.serveFile).  A request names a       *)
(* version by its id; the spec "latest" and the redirect of a spec that is *)
(* not an id are left out.  What the store and the export task return is   *)
(* an input.                                                               *)
(***************************************************************************)
MaxReqs == 2

MaxEnts == 2

Versions == {"v1", "v2"}

\* What an export task can come to: err is what the task function returns,
\* csv and json are whether the bytes were written, csvErr and jsonErr the
\* errors of the two writers.
Outcomes ==
    {[err |-> "nil", csv |-> TRUE, csvErr |-> "nil", json |-> TRUE, jsonErr |-> "nil"],
     [err |-> "read pb", csv |-> FALSE, csvErr |-> "nil", json |-> FALSE, jsonErr |-> "nil"],
     [err |-> "nil", csv |-> FALSE, csvErr |-> "zip", json |-> TRUE, jsonErr |-> "nil"],
     [err |-> "nil", csv |-> TRUE, csvErr |-> "nil", json |-> FALSE, jsonErr |-> "write"]}

StoreResults == {"found", "none", "invalid", "error"}

NoReq ==
    [pc |-> "new", kind |-> "", spec |-> "", d |-> 0, cancelled |-> FALSE,
     status |-> 0, why |-> "", buf |-> <<>>, err |-> "nil"]

ServeInit ==
    /\ hcache = [id \in Versions |-> 0]
    /\ ents = <<>>
    /\ reqs = [r \in 1..MaxReqs |-> NoReq]

NoServe == hcache = <<>> /\ ents = <<>> /\ reqs = <<>>

\* weak.Pointer.Value of the entry of id: the object while something still
\* refers to it, 0 (nil) otherwise.
Value(id) == IF hcache[id] # 0 /\ ents[hcache[id]].live THEN hcache[id] ELSE 0

\* serveError and the other ways a handler ends: the status written, 0 for none.
Answer(r, q, status, why, buf, err) ==
    reqs' = [reqs EXCEPT ![r] = [q EXCEPT !.pc = "done", !.status = status, !.why = why,
                                          !.buf = buf, !.err = err]]

\* What serveCSV and serveJSON do with what resolveCSV or resolveJSON returned.
serve(r, q, why, buf, err) ==
    Answer(r, q, IF err # "nil" THEN IF err = "invalid spec format" THEN 400 ELSE 500
              ELSE IF buf = <<>> THEN 404 ELSE 200,
           why, buf, err)

\* serveCSV or serveJSON up to the store read of resolve: prepare(spec, true)
\* gives the cached entry of the id, or resolve goes on to ResolveVersion.
ServeExport(r, kind, spec) ==
    /\ reqs[r].pc = "new"
    /\ reqs' = [reqs EXCEPT ![r] = [@ EXCEPT !.kind = kind, !.spec = spec, !.d = Value(spec),
                                          !.pc = IF Value(spec) # 0 THEN "wait" ELSE "resolve"]]
    /\ UNCHANGED <<cacheVars, indexVars, viewVars, resolveVars, dateVars, exportVars, jsonVars, timerVars, hcache, ents>>

\* ResolveVersion returns and resolve ends: with an error, or with
\* prepare(id, false), which under cacheMu takes the entry of the id or makes
\* one and starts its task.
Prepare(r, res) ==
    /\ reqs[r].pc = "resolve"
    /\ IF res # "found" THEN
           /\ serve(r, reqs[r], "resolve", <<>>,
                    CASE res = "error" -> "resolve" [] res = "invalid" -> "invalid spec format"
                      [] OTHER -> "nil")
           /\ UNCHANGED <<hcache, ents>>
       ELSE IF Value(reqs[r].spec) # 0 THEN
           /\ reqs' = [reqs EXCEPT ![r] = [@ EXCEPT !.pc = "wait", !.d = Value(reqs[r].spec)]]
           /\ UNCHANGED <<hcache, ents>>
       ELSE
           /\ Len(ents) < MaxEnts
           /\ ents' = Append(ents, [id |-> reqs[r].spec, ready |-> FALSE, returned |-> FALSE,
                                    live |-> TRUE, task |-> "nil", err |-> "nil",
                                    csv |-> <<>>, csvErr |-> "nil",
                                    json |-> <<>>, jsonErr |-> "nil"])
           /\ hcache' = [hcache EXCEPT ![reqs[r].spec] = Len(ents) + 1]
           /\ reqs' = [reqs EXCEPT ![r] = [@ EXCEPT !.pc = "wait", !.d = Len(ents) + 1]]
    /\ UNCHANGED <<cacheVars, indexVars, viewVars, resolveVars, dateVars, exportVars, jsonVars, timerVars>>

\* The export task up to the deferred close(r): the fields are set and the
\* ready channel is closed; what the task function returns is not yet in d.err.
TaskClose(e, o) ==
    /\ ~ents[e].ready
    /\ ents' = [ents EXCEPT ![e] = [@ EXCEPT !.ready = TRUE, !.task = o.err,
                    !.csv = IF o.csv THEN <<"csv", e>> ELSE <<>>, !.csvErr = o.csvErr,
                    !.json = IF o.json THEN <<"json", e>> ELSE <<>>, !.jsonErr = o.jsonErr]]
    /\ UNCHANGED <<cacheVars, indexVars, viewVars, resolveVars, dateVars, exportVars, jsonVars, timerVars, hcache, reqs>>

\* The assignment d.err = func() error {...}() and the end of the goroutine.
TaskReturn(e) ==
    /\ ents[e].ready /\ ~ents[e].returned
    /\ ents' = [ents EXCEPT ![e] = [@ EXCEPT !.returned = TRUE, !.err = ents[e].task]]
    /\ UNCHANGED <<cacheVars, indexVars, viewVars, resolveVars, dateVars, exportVars, jsonVars, timerVars, hcache, reqs>>

\* The collector frees an entry that neither its task nor a handler refers to.
Collect(e) ==
    /\ ents[e].live /\ ents[e].returned
    /\ \A r \in 1..MaxReqs : ~(reqs[r].pc = "wait" /\ reqs[r].d = e)
    /\ ents' = [ents EXCEPT ![e] = [@ EXCEPT !.live = FALSE]]
    /\ UNCHANGED <<cacheVars, indexVars, viewVars, resolveVars, dateVars, exportVars, jsonVars, timerVars, hcache, reqs>>

\* The client of a request whose handler is blocked goes away: the request's
\* context is cancelled.
Cancel(r) ==
    /\ reqs[r].pc \in {"wait", "read"} /\ ~reqs[r].cancelled
    /\ reqs' = [reqs EXCEPT ![r] = [@ EXCEPT !.cancelled = TRUE]]
    /\ UNCHANGED <<cacheVars, indexVars, viewVars, resolveVars, dateVars, exportVars, jsonVars, timerVars, hcache, ents>>

\* The case <-ctx.Done() of the select of resolveCSV or resolveJSON, and what
\* serveCSV or serveJSON does with ctx.Err().
WaitCancelled(r) ==
    /\ reqs[r].pc = "wait" /\ reqs[r].cancelled
    /\ serve(r, reqs[r], "cancelled", <<>>, "context canceled")
    /\ UNCHANGED <<cacheVars, indexVars, viewVars, resolveVars, dateVars, exportVars, jsonVars, timerVars, hcache, ents>>

\* The case <-d.ready of the select.  d.err is read without synchronisation
\* with its assignment: seen is the nil it held before or what it holds now.
WaitReady(r, seen) ==
    /\ reqs[r].pc = "wait" /\ ents[reqs[r].d].ready
    /\ LET d == ents[reqs[r].d]
       IN  /\ seen \in {"nil", d.err}
           /\ IF seen # "nil" THEN serve(r, reqs[r], "ready", <<>>, "nil")
              ELSE IF reqs[r].kind = "csv" THEN serve(r, reqs[r], "ready", d.csv, d.csvErr)
              ELSE serve(r, reqs[r], "ready", d.json, d.jsonErr)
    /\ UNCHANGED <<cacheVars, indexVars, viewVars, resolveVars, dateVars, exportVars, jsonVars, timerVars, hcache, ents>>

\* dataAPIv1.serveFile up to its store read ResolveVersion(ctx, spec).
ServeFile(r, spec) ==
    /\ reqs[r].pc = "new"
    /\ reqs' = [reqs EXCEPT ![r] = [@ EXCEPT !.pc = "read", !.kind = "file", !.spec = spec]]
    /\ UNCHANGED <<cacheVars, indexVars, viewVars, resolveVars, dateVars, exportVars, jsonVars, timerVars, hcache, ents>>

\* The store read returns and serveFile answers: a cancelled read returns the
\* context's error, like any other error of the store.
FileRead(r, res) ==
    /\ reqs[r].pc = "read"
    /\ IF reqs[r].cancelled THEN Answer(r, reqs[r], 500, "cancelled", <<>>, "context canceled")
       ELSE Answer(r, reqs[r], CASE res = "error" -> 500 [] res = "invalid" -> 400
                        [] res = "none" -> 404 [] OTHER -> 200,
                   "resolve", IF res = "found" THEN <<"file", 0>> ELSE <<>>,
                   IF res = "error" THEN "resolve" ELSE "nil")
    /\ UNCHANGED <<cacheVars, indexVars, viewVars, resolveVars, dateVars, exportVars, jsonVars, timerVars, hcache, ents>>

(***************************************************************************)
(* The repo fetcher goroutine of cmd/ottrec-data run: fetch, Import, then  *)
(* wait for the ticker.  The channel of time.Tick holds at most one tick;  *)
(* a tick that fires while one is held is dropped.                         *)
(***************************************************************************)
MaxTicks == 3

NoTick == [held |-> FALSE, ended |-> 0, busy |-> FALSE]

\* The goroutine starts with the imports of the flags: remote is whether
\* -repo-remote is set, interval whether time.Tick gave a ticker.
TimerInit ==
    \E remote, interval \in BOOLEAN :
        upd = [remote |-> remote, interval |-> interval,
               pc |-> IF remote THEN "fetch" ELSE "import",
               running |-> IF remote THEN 0 ELSE 1,
               started |-> IF remote THEN 0 ELSE 1, ended |-> 0, ticks |-> 0,
               tick |-> NoTick, took |-> NoTick, fetchErr |-> FALSE, importErr |-> FALSE]

\* git fetch returns, with an error or not, and cache.Import is called.
UpdFetch(err) ==
    /\ upd # <<>> /\ upd.pc = "fetch"
    /\ upd' = [upd EXCEPT !.pc = "import", !.fetchErr = err,
                          !.running = @ + 1, !.started = @ + 1]
    /\ UNCHANGED <<cacheVars, indexVars, viewVars, resolveVars, dateVars, exportVars, jsonVars, serveVars>>

\* cache.Import returns; without a ticker the goroutine returns.
UpdImported(err) ==
    /\ upd # <<>> /\ upd.pc = "import"
    /\ upd' = [upd EXCEPT !.pc = IF upd.interval THEN "wait" ELSE "return",
                          !.importErr = err, !.running = @ - 1, !.ended = @ + 1]
    /\ UNCHANGED <<cacheVars, indexVars, viewVars, resolveVars, dateVars, exportVars, jsonVars, serveVars>>

\* The ticker fires: the tick is put in the channel unless one is held.
UpdTick ==
    /\ upd # <<>> /\ upd.interval /\ upd.ticks < MaxTicks
    /\ upd' = [upd EXCEPT !.ticks = @ + 1,
                          !.tick = IF @.held THEN @
                                   ELSE [held |-> TRUE, ended |-> upd.ended,
                                         busy |-> upd.pc = "import"]]
    /\ UNCHANGED <<cacheVars, indexVars, viewVars, resolveVars, dateVars, exportVars, jsonVars, serveVars>>

\* UpdReceive of a channel that still holds the tick it has given.
UpdReceiveKept ==
    /\ upd # <<>> /\ upd.pc = "wait" /\ upd.tick.held
    /\ upd' = [upd EXCEPT !.took = upd.tick,
                          !.pc = IF upd.remote THEN "fetch" ELSE "import",
                          !.running = IF upd.remote THEN @ ELSE @ + 1,
                          !.started = IF upd.remote THEN @ ELSE @ + 1]
    /\ UNCHANGED <<cacheVars, indexVars, viewVars, resolveVars, dateVars, exportVars, jsonVars, serveVars>>

\* <-ticker: the goroutine takes the held tick and goes round the loop.
UpdReceive ==
    /\ upd # <<>> /\ upd.pc = "wait" /\ upd.tick.held
    /\ upd' = [upd EXCEPT !.tick = NoTick, !.took = upd.tick,
                          !.pc = IF upd.remote THEN "fetch" ELSE "import",
                          !.running = IF upd.remote THEN @ ELSE @ + 1,
                          !.started = IF upd.remote THEN @ ELSE @ + 1]
    /\ UNCHANGED <<cacheVars, indexVars, viewVars, resolveVars, dateVars, exportVars, jsonVars, serveVars>>

NoTimer == upd = <<>>


CacheInit ==
    /\ chain = <<>> /\ nhash = 0
    /\ tCommits = {} /\ tData = <<>> /\ tFiles = {} /\ tBlobs = {}
    /\ pc = "idle" /\ walk = <<>> /\ walked = {} /\ ret = "none" /\ last = NoCall

\* No snapshot with dates is at hand.
NoDates == dat = <<>> /\ dix = NoDateIndex /\ dres = NoRange

IndexInit ==
    /\ snap = <<>> /\ bulk = FALSE /\ idx = NoIndex /\ ipc = "input"

Init == CacheInit /\ IndexInit /\ ViewInit /\ ResolveInit /\ NoDates /\ NoExport /\ NoJSON /\ NoServe /\ NoTimer

Next ==
    \/ GitCommit
    \/ GitReplaceHead
    \/ ImportBegin
    \/ ImportCommit
    \/ ImportEnd
    \/ ImportWalkFail

Spec == Init /\ [][Next]_vars

NextIndex ==
    \/ AddFacility
    \/ AddScheduleGroup
    \/ AddSchedule
    \/ AddActivity
    \/ AddDay
    \/ AddTime
    \/ AddManyTimes
    \/ Load

SpecIndex == Init /\ [][NextIndex]_vars

NextView ==
    \/ AddFacility
    \/ AddScheduleGroup
    \/ AddSchedule
    \/ AddActivity
    \/ AddDay
    \/ AddTime
    \/ Load
    \/ Mutate
    \/ Remove
    \/ Filter
    \/ ElideAll

SpecView == Init /\ [][NextView]_vars

InitResolve == CacheImported /\ IndexInit /\ ViewInit /\ ResolveInit /\ NoDates /\ NoExport /\ NoJSON /\ NoServe /\ NoTimer

NextResolve == Resolve

SpecResolve == InitResolve /\ [][NextResolve]_vars

InitDates == CacheInit /\ IndexInit /\ ViewInit /\ ResolveInit /\ DateInit /\ NoExport /\ NoJSON /\ NoServe /\ NoTimer

NextDates ==
    \/ LoadDates
    \/ EffectiveDateRange
    \/ CallSingleDate

SpecDates == InitDates /\ [][NextDates]_vars

InitExport ==
    /\ CacheInit /\ IndexInit /\ ViewInit /\ ResolveInit /\ NoDates
    /\ ExportInit /\ NoJSON /\ NoServe /\ NoTimer

NextExport ==
    \/ CallNew
    \/ CallCSV

SpecExport == InitExport /\ [][NextExport]_vars

InitJSON ==
    /\ CacheInit /\ IndexInit /\ ViewInit /\ ResolveInit /\ NoDates
    /\ NoExport /\ JsonInit /\ NoServe /\ NoTimer

NextJSON == \E fn \in {"appendQuoteJSON", "appendStringJSON"} : CallJSON(fn)

SpecJSON == InitJSON /\ [][NextJSON]_vars

InitServe ==
    /\ CacheInit /\ IndexInit /\ ViewInit /\ ResolveInit /\ NoDates
    /\ NoExport /\ NoJSON /\ ServeInit /\ NoTimer

NextServe ==
    \/ \E r \in 1..MaxReqs, kind \in {"csv", "json"}, spec \in Versions :
          ServeExport(r, kind, spec)
    \/ \E r \in 1..MaxReqs, res \in StoreResults : Prepare(r, res)
    \/ \E e \in 1..Len(ents), o \in Outcomes : TaskClose(e, o)
    \/ \E e \in 1..Len(ents) : TaskReturn(e)
    \/ \E e \in 1..Len(ents) : Collect(e)
    \/ \E r \in 1..MaxReqs : Cancel(r)
    \/ \E r \in 1..MaxReqs : WaitCancelled(r)
    \/ \E r \in 1..MaxReqs, seen \in {o.err : o \in Outcomes} : WaitReady(r, seen)
    \/ \E r \in 1..MaxReqs, spec \in Versions : ServeFile(r, spec)
    \/ \E r \in 1..MaxReqs, res \in StoreResults : FileRead(r, res)

SpecServe == InitServe /\ [][NextServe]_vars

InitTimer ==
    /\ CacheInit /\ IndexInit /\ ViewInit /\ ResolveInit /\ NoDates
    /\ NoExport /\ NoJSON /\ NoServe /\ TimerInit

NextTimer ==
    \/ \E err \in BOOLEAN : UpdFetch(err)
    \/ \E err \in BOOLEAN : UpdImported(err)
    \/ UpdTick
    \/ UpdReceive

SpecTimer == InitTimer /\ [][NextTimer]_vars

(***************************************************************************)
(* Properties of the durable cache.                                        *)
(***************************************************************************)
StoreNext == [commits |-> tCommits', data |-> tData', files |-> tFiles', blobs |-> tBlobs']

CommitHashes(S) == {r.hash : r \in S.commits}

\* C1: every data row's revision is 1 plus the number of data rows with the
\* same updated value inserted before it (so the first one has revision 1).
C1_RevisionCountsEarlierRows ==
    \A i \in 1..Len(tData) :
        tData[i].revision =
            1 + Cardinality({j \in 1..(i - 1) : tData[j].updated = tData[i].updated})

\* Two rows share an updated value, after a row with another one was inserted.
C1_Witness ==
    \E i, j, k \in 1..Len(tData) :
        /\ i < j /\ k < j
        /\ tData[i].updated = tData[j].updated
        /\ tData[k].updated # tData[j].updated

\* The commit c has its commits row, its data row, and for every format of
\* its tree a files row of that data row and the blob of the content.
HasAllRows(S, c) ==
    /\ c.hash \in CommitHashes(S)
    /\ \E i \in 1..Len(S.data) :
          /\ S.data[i].hash = c.hash
          /\ \A k \in 1..Len(formats) :
                c.tree[formats[k]] # Missing =>
                    /\ [id |-> S.data[i].id, format |-> formats[k],
                        hash |-> base32sha1(c.tree[formats[k]])] \in S.files
                    /\ \E b \in S.blobs : b.hash = base32sha1(c.tree[formats[k]])

\* C2: after every call of importCommit, whether it imported, skipped or
\* failed, the store holds all the rows of the commit, or none of them: no
\* commits row, no data row, and no files row or blob the call added.
C2_ImportCommitAtomic ==
    [][ImportCommit =>
          LET c == Head(walk)
          IN  \/ HasAllRows(StoreNext, c)
              \/ /\ c.hash \notin CommitHashes(StoreNext)
                 /\ \A i \in 1..Len(tData') : tData'[i].hash # c.hash
                 /\ tData' = tData /\ tFiles' = tFiles /\ tBlobs' = tBlobs]_vars

\* A call was skipped, and a call failed in the database after its data row
\* was inserted, while the store already held an imported commit.
C2_Witness ==
    /\ tData # <<>>
    /\ last.why \in {"duplicate", "database"}
    /\ last.hash \notin CommitHashes(Store)

CommitDate(h) == (CHOOSE r \in tCommits : r.hash = h).date

\* C3: of two data rows with the same updated value, the one with the lower
\* revision comes from the commit with the earlier commit date.
C3_RevisionFollowsCommitDate ==
    \A i, j \in 1..Len(tData) :
        (tData[i].updated = tData[j].updated /\ tData[i].revision < tData[j].revision)
            => CommitDate(tData[i].hash) <= CommitDate(tData[j].hash)

\* The two ids of the claim, written out from the four files of a tree.
DigestOfPb(tree) == base32sha1(tree.pb)
NineOfAll(tree) == <<"9", base32sha1(tree.pb \o tree.textpb \o tree.proto \o tree.json)[2]>>

\* C4: a commit that is stored is stored under digest(data.pb) when that is
\* not yet a data.id, and under "9" + digest(all four files)[1:] when it is;
\* when both are data.ids the commit is skipped and no data row is added; a
\* commit that is read, parses and has a date is stored unless both exist.
C4_IdOfStoredCommit ==
    [][(ImportCommit /\ Head(walk).hash \notin CommitHashes(Store)) =>
          LET c    == Head(walk)
              ids  == DataIDs(tData)
              both == DigestOfPb(c.tree) \in ids /\ NineOfAll(c.tree) \in ids
              want == IF DigestOfPb(c.tree) \in ids THEN NineOfAll(c.tree)
                      ELSE DigestOfPb(c.tree)
          IN  /\ (last'.why = "imported") <=>
                    (/\ Len(tData') = Len(tData) + 1
                     /\ SubSeq(tData', 1, Len(tData)) = tData
                     /\ tData'[Len(tData')].hash = c.hash)
              /\ last'.why = "imported" => (~both /\ tData'[Len(tData')].id = want)
              /\ last'.why # "imported" => tData' = tData
              /\ (both /\ last'.why \notin {"shell", "notexist", "database"})
                    => (last'.why = "duplicate" /\ last'.res = "skip")
              /\ (~both /\ last'.why \notin {"shell", "notexist", "database"}
                    /\ Unmarshal(c.tree.pb).ok /\ Unmarshal(c.tree.pb).updated # 0)
                    => last'.why = "imported"]_vars

\* A commit was stored under a 9-id and a later one was skipped as duplicate.
C4_Witness ==
    /\ \E i \in 1..Len(tData) : tData[i].id[1] = "9"
    /\ last.why = "duplicate"

\* C5: when importCommit fails because data.pb cannot be parsed, the commit
\* is rolled back and Import goes on with the next commit of the walk.
C5_ParseFailureGoesOn ==
    [][(ImportCommit /\ last'.why = "unmarshal") =>
          /\ Head(walk).hash \notin CommitHashes(StoreNext)
          /\ pc' = "walk" /\ walk' = Tail(walk) /\ ret' # "err"]_vars

\* C6: when reading a file of the commit fails with a shell or I/O error
\* other than file-not-found, Import stops and returns an error, and the
\* store keeps what was committed before.
C6_ReadErrorStopsImport ==
    [][(ImportCommit /\ last'.why = "shell") =>
          /\ pc' = "idle" /\ ret' = "err"
          /\ StoreNext = Store]_vars

\* C7: after Import returns without error, every commit the walk produced,
\* the skipped ones included, has exactly one row in commits.
C7_WalkedCommitsRecorded ==
    (pc = "idle" /\ ret = "nil") =>
        \A h \in walked : Cardinality({r \in tCommits : r.hash = h}) = 1
(***************************************************************************)
(* The built Index.                                                        *)
(***************************************************************************)
NumObj == Len(idx.obj)
KindOf(r) == idx.obj[r + 1].kind
IsProperPrefix(p, q) == Len(p) < Len(q) /\ SubSeq(q, 1, Len(p)) = p

\* The objects whose message lies inside the message of the object at r.
Descendants(r) ==
    {j \in 0..(NumObj - 1) : IsProperPrefix(idx.obj[r + 1].path, idx.obj[j + 1].path)}

\* C8: in a built Index every object index is set in exactly one of the six
\* type bitmaps, the one of the object's kind, no type bitmap has a bit beyond
\* the objects, obj[0] is the Data and the Data bitmap holds index 0 only.
C8_TypeBitmapsPartition ==
    Built =>
        /\ NumObj >= 1
        /\ KindOf(0) = "Data"
        /\ idx.b["Data"].bits = {0}
        /\ \A k \in KindSet : idx.b[k].bits \subseteq 0..(NumObj - 1)
        /\ \A i \in 0..(NumObj - 1) : \A k \in KindSet :
              (i \in idx.b[k].bits) <=> (KindOf(i) = k)

\* An Index of more objects than one bitmap word, with objects of every kind.
C8_Witness ==
    /\ Built
    /\ NumObj > WordBits
    /\ \A k \in KindSet : idx.b[k].bits # {}
    /\ \E i \in idx.b["Time"].bits : i >= WordBits

\* C9: in a built Index the descendants of the object at r, of kind T, are
\* the objects strictly between r and the first set bit after r of T's
\* not-a-child bitmap, or the end of obj[] when no bit after r is set.
C9_DescendantsUpToNextNotChild ==
    Built =>
        \A r \in 0..(NumObj - 1) :
            LET after == {v \in idx.nc[KindOf(r)].bits : v > r}
                end   == IF after = {} THEN NumObj ELSE SetMin(after)
            IN  Descendants(r) = {j \in 0..(NumObj - 1) : r < j /\ j < end}

\* An object with descendants that is followed by a not-a-child bit, and
\* another (not the Data) with descendants that run to the end of obj[].
C9_Witness ==
    /\ Built
    /\ \E r \in 1..(NumObj - 1) :
          /\ Descendants(r) # {}
          /\ \E v \in idx.nc[KindOf(r)].bits : v > r
    /\ \E r \in 1..(NumObj - 1) :
          /\ Descendants(r) # {}
          /\ ~ \E v \in idx.nc[KindOf(r)].bits : v > r

\* The kinds strictly between levels lt and lu.
Between(lt, lu) == (lt + 1)..(lu - 1)
KindsOf(levels) == [i \in 1..Len(levels) |-> Kinds[levels[i]]]

\* C10: for a reference r of kind T and a kind U below T, iterating the
\* U-children of r directly yields the same references in the same order as
\* nested iteration through any chain of the levels between T and U.
C10_ChildrenFlattenThroughLevels ==
    Built =>
        \A r \in 0..(NumObj - 1) :
            \A lu \in (Level(KindOf(r)) + 1)..Len(Kinds) :
                \A mid \in SUBSET Between(Level(KindOf(r)), lu) :
                    Flatten(idx, <<KindOf(r)>> \o KindsOf(Ascending(mid)) \o <<Kinds[lu]>>, r)
                        = childRefSeq(idx, NilBitmap, KindOf(r), Kinds[lu], r)

\* A schedule group whose activities lie under two schedules.
C10_Witness ==
    /\ Built
    /\ \E r \in idx.b["ScheduleGroup"].bits :
          /\ Len(childRefSeq(idx, NilBitmap, "ScheduleGroup", "Schedule", r)) >= 2
          /\ Len(childRefSeq(idx, NilBitmap, "ScheduleGroup", "Activity", r)) >= 2

(***************************************************************************)
(* Views.                                                                  *)
(***************************************************************************)
HasView == Built /\ ~IsNil(vflt)
Visible(j) == j \in vflt.bits /\ j < NumObj
KindsBelow(k) == {Kinds[l] : l \in (Level(k) + 1)..Len(Kinds)}

\* C11: for a view with filter F, the U-children of every visible reference
\* are the U-children the unfiltered Index yields with the objects whose bit
\* is cleared in F left out, in the same order.
C11_ViewChildrenAreRestriction ==
    HasView =>
        \A r \in 0..(NumObj - 1) : \A U \in KindsBelow(KindOf(r)) :
            Visible(r) =>
                childRefSeq(idx, vflt, KindOf(r), U, r)
                    = SelectSeq(childRefSeq(idx, NilBitmap, KindOf(r), U, r),
                                LAMBDA v : v \in vflt.bits)

\* A view in which a reference has both visible and masked children.
C11_Witness ==
    /\ HasView
    /\ \E r \in 0..(NumObj - 1) : \E U \in KindsBelow(KindOf(r)) :
          /\ Visible(r)
          /\ Len(childRefSeq(idx, vflt, KindOf(r), U, r)) >= 1
          /\ Len(childRefSeq(idx, vflt, KindOf(r), U, r))
                < Len(childRefSeq(idx, NilBitmap, KindOf(r), U, r))

\* C12: every reference a caller obtains dereferences to an object of its
\* kind whenever the caller dereferences it: the children of any reference of
\* the Index, the children of any visible reference of a frozen view, and
\* the references a Filter predicate was given, also once Filter has returned.
C12_ReferencesDeref ==
    [][/\ Built' =>
            \A r \in 0..(Len(idx'.obj) - 1) : \A U \in KindsBelow(idx'.obj[r + 1].kind) :
                /\ \A i \in 1..Len(childRefSeq(idx', NilBitmap, idx'.obj[r + 1].kind, U, r)) :
                      Deref(idx', NilBitmap, U, childRefSeq(idx', NilBitmap, idx'.obj[r + 1].kind, U, r)[i])
                /\ (~IsNil(vflt') /\ r \in vflt'.bits) =>
                      \A i \in 1..Len(childRefSeq(idx', vflt', idx'.obj[r + 1].kind, U, r)) :
                          Deref(idx', vflt', U, childRefSeq(idx', vflt', idx'.obj[r + 1].kind, U, r)[i])
       /\ Filter =>
            \A i \in 1..Len(vop'.calls) : Deref(idx, vflt', vop'.kind, vop'.calls[i])
      ]_vars

\* The first object after r that is not inside r, or the end of obj[].
NextNotInside(r) ==
    LET S == {j \in (r + 1)..(NumObj - 1) : Level(KindOf(j)) <= Level(KindOf(r))}
    IN  IF S = {} THEN NumObj ELSE SetMin(S)

\* C13: RemoveT(ref) returns false and leaves the filter as it is when ref
\* is nil, of another Index or already masked; otherwise it returns true and
\* clears the filter bits from ref's index up to, not including, the next
\* object at or above T's level, and no other bit.
C13_RemoveClearsSubtree ==
    [][Remove =>
          LET ref == vop'.ref
          IN  IF ref.of # "this" \/ ref.obj \notin vflt.bits
              THEN ~vop'.ret /\ vflt' = vflt
              ELSE /\ vop'.ret
                   /\ vflt'.len = vflt.len
                   /\ vflt'.bits = vflt.bits \ (ref.obj..(NextNotInside(ref.obj) - 1))
      ]_vars

\* A Remove that returned true for an object with descendants, a later object
\* staying visible.
C13_Witness ==
    /\ HasView /\ vop.op = "Remove" /\ vop.ret
    /\ Descendants(vop.ref.obj) # {}
    /\ \E j \in (vop.ref.obj + 1)..(NumObj - 1) : Visible(j)

\* C14: FilterT(pred) calls pred once on each visible T object in reference
\* order, does not panic, and leaves masked exactly what was masked before
\* and the objects pred was false for with their descendants.  (The steps
\* that end with a Filter as the last operation are the Filter steps.)
C14_FilterRemovesFailing ==
    [][vop'.op = "Filter" =>
          LET T    == vop'.kind
              seen == SelectSeq([i \in 1..NumObj |-> i - 1],
                                LAMBDA j : KindOf(j) = T /\ j \in vflt.bits)
              gone == UNION {{j} \cup Descendants(j) :
                             j \in {seen[i] : i \in 1..Len(seen)} \ vop'.pass}
          IN  /\ ~vop'.panic
              /\ vop'.calls = seen
              /\ vflt'.len = vflt.len
              /\ vflt'.bits = vflt.bits \ gone
      ]_vars

\* A Filter over a view with a masked T object, in which pred was true of one
\* object and false of another that has descendants.
C14_Witness ==
    /\ HasView /\ vop.op = "Filter" /\ ~vop.panic
    /\ \E i \in 1..Len(vop.calls) : vop.calls[i] \in vop.pass
    /\ \E i \in 1..Len(vop.calls) :
          vop.calls[i] \notin vop.pass /\ Descendants(vop.calls[i]) # {}
    /\ Cardinality(idx.b[vop.kind].bits) > Len(vop.calls)

\* A visible object of the level below k inside the object at j.
HasVisibleChild(j) ==
    \E c \in Descendants(j) : Visible(c) /\ Level(KindOf(c)) = Level(KindOf(j)) + 1

SingleChain ==
    [i \in 1..NumObj |-> idx.obj[i].kind] = Kinds

\* C15: after Elide() every visible Facility, ScheduleGroup, Schedule and
\* Activity has a visible child at the next-lower level; a view of a
\* single-chain Index whose Time was removed has no visible Facility.
C15_ElideLeavesNoEmpty ==
    (HasView /\ vop.op = "Elide") =>
        /\ ~vop.panic
        /\ \A j \in 1..(NumObj - 1) :
              (Visible(j) /\ KindOf(j) # "Time") => HasVisibleChild(j)
        /\ (SingleChain /\ ~Visible(NumObj - 1)) =>
              childRefSeq(idx, vflt, "Data", "Facility", 0) = <<>>

\* Elide() on the view of a single-chain Index whose Time was removed.
C15_Witness ==
    /\ HasView /\ vop.op = "Elide"
    /\ SingleChain /\ ~Visible(NumObj - 1)
    /\ childRefSeq(idx, vflt, "Data", "Facility", 0) = <<>>

(***************************************************************************)
(* Properties of ResolveVersion.                                           *)
(***************************************************************************)
LayoutLens == {7, 10, 16, 19}

\* spec is a date prefix YYYY-MM, YYYY-MM-DD, YYYY-MM-DDTHH:MM or
\* YYYY-MM-DDTHH:MM:SS of a date of the calendar, with an hour 00 to 23.
DatePrefix(spec) == ParseLayout(StrLen(spec), spec, 0..23)
IsDatePrefix(spec) == StrLen(spec) \in LayoutLens /\ DatePrefix(spec).ok

\* The first instant after the window a date prefix names.
WindowEnd(spec) ==
    LET t == DatePrefix(spec)
        n == StrLen(spec)
    IN  IF n = 7 THEN Date(t.y, t.m + 1, 1, 0, 0, 0)
        ELSE IF n = 10 THEN Date(t.y, t.m, t.d + 1, 0, 0, 0)
        ELSE IF n = 16 THEN Date(t.y, t.m, t.d, t.hh, t.mm + 1, 0)
        ELSE Date(t.y, t.m, t.d, t.hh, t.mm, t.ss + 1)

\* The result is the first of rows in (updated desc, revision desc) order
\* after skipping k of them, and the empty result when there is none.
ResultIsRow(rows, k) ==
    IF \E r \in rows : Rank(rows, r) = k
    THEN \E r \in rows : /\ Rank(rows, r) = k
                         /\ rres.id = r.id /\ rres.updated = Time(r.updated)
                         /\ rres.ok /\ ~rres.err
    ELSE rres.id = <<>> /\ rres.updated = ZeroTime /\ rres.ok /\ ~rres.err

\* C16: for a date-prefix spec the result is the greatest row in (updated,
\* revision) order among the rows updated strictly before the first instant
\* after the window (the start of the next month, day, minute or second).
C16_DatePrefixWindow ==
    (rres.called /\ ~rres.fail /\ IsDatePrefix(rres.spec)) =>
        ResultIsRow({r \in RowsOf(tData) : r.updated < WindowEnd(rres.spec).sec}, 0)

\* spec is latest-N with N a positive integer.
IsLatestN(spec) ==
    LET n == SubSeq(spec.c, Len(Latest) + 2, Len(spec.c))
    IN  /\ spec.d = <<>> /\ HasPrefix(spec, Latest \o <<"-">>)
        /\ AllDigits(n) /\ StripZeros(n) # <<>>

LatestN(spec) == StripZeros(SubSeq(spec.c, Len(Latest) + 2, Len(spec.c)))

\* C17: spec_was_valid is true for a digest-length string, for latest, for
\* latest-N with N a positive integer and for a well-formed date prefix (any
\* hour 00 to 23), and false for every other string.
C17_SpecValidity ==
    rres.called =>
        (rres.ok <=> \/ StrLen(rres.spec) = EncodedLen
                     \/ rres.spec = Text(Latest)
                     \/ IsLatestN(rres.spec)
                     \/ IsDatePrefix(rres.spec))

\* C18: latest is the first row in (updated desc, revision desc) order and
\* latest-N with N >= 1 the row N positions after it; with fewer than N+1 rows
\* the result is the empty id, the zero time and valid = true.
C18_LatestOffset ==
    /\ (rres.called /\ ~rres.fail /\ rres.spec = Text(Latest)) =>
            ResultIsRow(RowsOf(tData), 0)
    /\ (rres.called /\ ~rres.fail /\ IsLatestN(rres.spec)) =>
            ResultIsRow(RowsOf(tData),
                        IF Len(LatestN(rres.spec)) > 9 THEN Cardinality(RowsOf(tData))
                        ELSE Atoi(LatestN(rres.spec)))

(***************************************************************************)
(* Properties of the effective date range.                                 *)
(***************************************************************************)
Called == dres.op = "range"
RangeOf(i) == SchedulesOf(dat, 1)[i].range
SourceOf(i) == dat[SchedulesOf(dat, 1)[i].fac].source

\* C19: for a schedule whose Facility has no source date, the effective date
\* range of the built Index takes a from year that is not set from the
\* Index's updated timestamp whenever that timestamp is not zero.
C19_YearFromIndexUpdated ==
    (/\ Called /\ SourceOf(dres.i).zero /\ ~dix.updated.zero
     /\ RangeOf(dres.i).from.valid /\ RangeOf(dres.i).from.m # 0
     /\ RangeOf(dres.i).from.y = 0)
    => (~dres.from.zero /\ YearOf(dres.from) = YearOf(dix.updated))

\* The to date lacks a month and a from date was resolved.
ToLacksMonth ==
    /\ Called /\ ~DateIsZero(RangeOf(dres.i).to) /\ RangeOf(dres.i).to.valid
    /\ RangeOf(dres.i).to.m = 0 /\ ~dres.from.zero

\* The effective to date is the last nanosecond of the to day in the month of
\* the from date.
ToInFromMonth ==
    LET x     == RangeOf(dres.i).to
        year  == IF x.y = 0 THEN YearOf(dres.from) ELSE x.y
        month == MonthOf(dres.from)
        day   == IF x.d = 0 THEN daysInMonth(year, month) ELSE x.d
    IN  dres.to = Tick(2 * DayNumber(year, month, day + 1) - 1)

\* C20 as stated: whenever the to date lacks a month and a from date was
\* resolved, the effective to date takes the month of the from date and the
\* computation does not give up for lack of a to month.
C20_ToMonthInherited == ToLacksMonth => ToInFromMonth

\* C20: whenever the to date lacks a month and has no year or the year of the
\* from date, and a from date was resolved, the effective to date is computed
\* with the month of the from date and the computation does not give up for
\* lack of a to month.
C20_ToMonthInheritedSameYear ==
    (/\ ToLacksMonth
     /\ RangeOf(dres.i).to.y = 0 \/ RangeOf(dres.i).to.y = YearOf(dres.from))
    => ToInFromMonth

C20_Witness ==
    /\ ToLacksMonth /\ RangeOf(dres.i).to.y = 0
    /\ dres.ok /\ MonthOf(dres.from) = 9 /\ ToInFromMonth

\* One side of the date range is a date that resolves (it is valid, has a
\* month, and has a year or a source date of the Facility to take it from).
Resolvable(x) ==
    /\ ~DateIsZero(x) /\ x.valid /\ x.m # 0
    /\ x.y # 0 \/ ~SourceOf(dres.i).zero

\* C29: when exactly one side of the date range is present and resolvable and
\* the other side is open, ComputeEffectiveDateRange returns ok = true and the
\* open side is the zero time.
C29_OneSidedRangeOk ==
    /\ (Called /\ Resolvable(RangeOf(dres.i).from) /\ DateIsZero(RangeOf(dres.i).to))
            => (dres.ok /\ ~dres.from.zero /\ dres.to.zero)
    /\ (Called /\ Resolvable(RangeOf(dres.i).to) /\ DateIsZero(RangeOf(dres.i).from))
            => (dres.ok /\ ~dres.to.zero /\ dres.from.zero)

\* C30: for a day label with a month and a day and no year, on a schedule
\* whose effective range runs from year Y into year Y+1, SingleDate returns
\* ok = true with year Y when the month and day are on or after the start of
\* the range, and with year Y+1 otherwise.
C30_SingleDateYearAcrossNewYear ==
    LET d == RangeOf(dres.i).day
        r == ComputeEffectiveDateRange(dix, dat, dres.i)
    IN  (/\ dres.op = "single" /\ d.y = 0 /\ d.m # 0 /\ d.d # 0
         /\ r.ok /\ ~r.from.zero /\ ~r.to.zero /\ YearOf(r.to) = YearOf(r.from) + 1)
        => LET onOrAfter == \/ d.m > MonthOf(r.from)
                            \/ d.m = MonthOf(r.from) /\ d.d >= DayOf(r.from)
               year      == IF onOrAfter THEN YearOf(r.from) ELSE YearOf(r.from) + 1
           IN  dres.ok /\ dres.from = Tick(2 * DayNumber(year, d.m, d.d))

\* C21: the CSV written for a table, a table of no rows included, starts with
\* the header row: the names of the table's columns.
C21_CSVStartsWithHeader ==
    out.table # "" =>
        /\ Len(out.lines) >= 1
        /\ out.lines[1] = writeRowCSV(Columns(out.table), <<>>, TRUE)

\* C24: in the export dataset the html row of id 0 holds the empty string and
\* no two html rows hold the same text.
C24_HtmlRowsDistinct ==
    exp # <<>> =>
        LET html == exp[1].html
        IN  /\ html[1] = [id |-> 0, html |-> <<>>]
            /\ \A i, j \in 1..Len(html) : html[i].html = html[j].html => i = j

\* What a JSON decoder reads of the bytes of a JSON string, as runes: -1 and
\* no more for bytes that are no JSON string; bytes that are not UTF-8 are
\* read as U+FFFD.
RECURSIVE DecodeJSONFrom(_, _)
DecodeJSONFrom(b, p) ==
    LET hex(c) == IF c \in 48..57 THEN c - 48 ELSE IF c \in 97..102 THEN c - 87 ELSE -1
    IN  IF p >= Len(b) THEN <<>>
        ELSE IF b[p] = 92 THEN
            IF p + 1 >= Len(b) THEN <<-1>>
            ELSE IF b[p + 1] = 117 THEN
                IF p + 5 >= Len(b) \/ \E k \in 2..5 : hex(b[p + k]) = -1 THEN <<-1>>
                ELSE <<hex(b[p + 2]) * 4096 + hex(b[p + 3]) * 256 + hex(b[p + 4]) * 16
                        + hex(b[p + 5])>> \o DecodeJSONFrom(b, p + 6)
            ELSE IF b[p + 1] \in {34, 92, 47} THEN <<b[p + 1]>> \o DecodeJSONFrom(b, p + 2)
            ELSE IF b[p + 1] \in {98, 102, 110, 114, 116} THEN
                <<CASE b[p + 1] = 98 -> 8 [] b[p + 1] = 102 -> 12 [] b[p + 1] = 110 -> 10
                    [] b[p + 1] = 114 -> 13 [] OTHER -> 9>> \o DecodeJSONFrom(b, p + 2)
            ELSE <<-1>>
        ELSE IF b[p] < 32 \/ b[p] = 34 THEN <<-1>>
        ELSE LET d == DecodeRune(SubSeq(b, 1, Len(b) - 1), p)
             IN  <<d.r>> \o DecodeJSONFrom(b, p + d.size)

DecodeJSON(b) ==
    IF Len(b) < 2 \/ b[1] # 34 \/ b[Len(b)] # 34 THEN <<-1>> ELSE DecodeJSONFrom(b, 2)

\* The characters of a string: every byte that starts no valid encoding is
\* one invalid sequence, read as U+FFFD.
RECURSIVE Runes(_, _)
Runes(s, p) ==
    IF p > Len(s) THEN <<>>
    ELSE LET d == DecodeRune(s, p) IN <<d.r>> \o Runes(s, p + d.size)

Separators(runes) == Len(SelectSeq(runes, LAMBDA r : r \in {8232, 8233}))

\* C22: in the JSON export every U+2028 and U+2029 of a string value is
\* written as the escape sequence \u2028 or \u2029, never as its raw bytes.
C22_SeparatorsEscaped ==
    jout # <<>> =>
        /\ \A p \in 1..Len(jout.bytes) - 2 :
              ~(jout.bytes[p] = 226 /\ jout.bytes[p + 1] = 128 /\ jout.bytes[p + 2] \in {168, 169})
        /\ Separators(DecodeJSON(jout.bytes)) = Separators(Runes(jout.in, 1))

\* C23: in the JSON export a part of a string value is replaced by U+FFFD
\* exactly when it is an invalid UTF-8 sequence of the input, and every valid
\* character is read back from the JSON string as the same character.
C23_ValidRoundTrip ==
    jout # <<>> => DecodeJSON(jout.bytes) = Runes(jout.in, 1)

\* The export tasks of version id that are running: started by prepare and
\* not yet returned.
RunningTasks(id) == {e \in 1..Len(ents) : ents[e].id = id /\ ~ents[e].returned}

\* C25: for any version id at most one export task runs at a time, however
\* many requests for the id arrive concurrently, and every request that is
\* answered once the task is done receives the outcome of that task: its
\* bytes, or its error.
C25_OneTaskPerVersion ==
    /\ \A id \in Versions : Cardinality(RunningTasks(id)) <= 1
    /\ \A r \in 1..MaxReqs :
          reqs[r].pc = "done" /\ reqs[r].why = "ready" =>
              LET d == ents[reqs[r].d]
              IN  /\ d.id = reqs[r].spec
                  /\ IF d.task # "nil" THEN reqs[r].err = d.task
                     ELSE IF reqs[r].kind = "csv"
                          THEN reqs[r].buf = d.csv /\ reqs[r].err = d.csvErr
                          ELSE reqs[r].buf = d.json /\ reqs[r].err = d.jsonErr

\* C27: a request that is cancelled while its handler is blocked on a store
\* read or on the completion event of the export memo gets no response
\* status from the handler.
C27_CancelledWritesNoStatus ==
    \A r \in 1..MaxReqs :
        reqs[r].pc = "done" /\ reqs[r].why = "cancelled" => reqs[r].status = 0

\* C28: when the export task of a version fails, every request for that
\* version's export that is answered from the task gets a server-error status.
C28_FailedTaskServerError ==
    \A r \in 1..MaxReqs :
        reqs[r].pc = "done" /\ reqs[r].why = "ready" /\ ents[reqs[r].d].task # "nil" =>
            reqs[r].status = 500

\* C26: a tick that fires while an import is running starts no additional
\* import: imports never overlap, and the tick on which the import after one
\* starts has fired after that one ended.
C26_TickDuringImportAbsorbed ==
    upd # <<>> =>
        /\ upd.running <= 1
        /\ upd.pc \in {"fetch", "import"} /\ upd.took.held => upd.took.ended = upd.ended

\* C26, amended: imports never overlap, and the tick on which the import
\* after one starts is no older than that one: it has fired after the import
\* before that one ended, so of the ticks that fire while an import runs at
\* most one is kept.
C26_OneTickKept ==
    upd # <<>> =>
        /\ upd.running <= 1
        /\ upd.pc \in {"fetch", "import"} /\ upd.took.held => upd.took.ended >= upd.ended - 1

\* A second import has started on a tick that fired while the first ran.
C26_Witness ==
    upd # <<>> /\ upd.pc = "import" /\ upd.started = 2 /\ upd.took.held /\ upd.took.busy

====
